---- MODULE Spec2Model ----
(***************************************************************************)
(* Model of the C boundary of the BosBase client (src/src/bosbase_c.cpp,   *)
(* src/include/bosbase_c.h).                                               *)
(*                                                                         *)
(* Seven specifications share this module:                                 *)
(*   Spec      the operation dispatcher: one synchronous call of one entry *)
(*             point on the caller's thread, from handle validation to the *)
(*             return value and the out-parameters;                        *)
(*   SubSpec   the subscription bridge: a delivery thread running the      *)
(*             bridge lambda, and a caller thread subscribing/cancelling;  *)
(*   AuthSpec  the auth store accessors and the strings handed out;        *)
(*   LifeSpec  the handle registry and the release functions;              *)
(*   BatchSpec the batch builder and the calls taking file attachments;    *)
(*   ConcSpec  two threads reading and writing the auth state;             *)
(*   ReqSpec   the inner request composed from ttl, paging and optional    *)
(*             string parameters.                                          *)
(*                                                                         *)
(* The inner library (bosbase::BosBase and its services) is not part of    *)
(* the sources; each inner call is an input of the model: it returns or    *)
(* raises one of the failure signals of Signals.                           *)
(***************************************************************************)
EXTENDS Integers, Sequences, FiniteSets, TLC

VARIABLES
    call,       \* Spec: the last completed boundary call [ep, in, res]
    subs,       \* SubSpec: subscription handle -> record (see SubInit)
    registry,   \* SubSpec: handles whose bridge lambda the inner transport holds
    deliv,      \* SubSpec: the delivery thread
    canc,       \* SubSpec: the caller thread inside bosbase_subscription_cancel
    events,     \* SubSpec: number of events the transport has dispatched
    store,      \* AuthSpec: the client's auth store (token, record), or freed
    held,       \* AuthSpec: strings the caller obtained and has not released
    steps,      \* AuthSpec: number of calls made
    clients,    \* LifeSpec: client handle -> "none" | "live" | "freed"
    batches,    \* LifeSpec: batch handle -> wrapper and inner accumulator
    links,      \* LifeSpec: subscription handle -> state and owning client
    heap,       \* LifeSpec: the Error Value and Boundary String the caller holds
    last,       \* LifeSpec: the last handle-registry call and the state before it
    bat,        \* BatchSpec: the batch handle and its inner accumulator
    remote,     \* BatchSpec: the remote calls made, each with what it carried
    buf,        \* BatchSpec: the caller's attachment buffer
    done,       \* BatchSpec: the last batch or upload call
    thr,        \* ConcSpec: the two caller threads on one client
    seenPair,   \* ConcSpec: the pair a request observed and the pair last saved
    req         \* ReqSpec: the last inner request an entry point composed

vars ==
    <<call, subs, registry, deliv, canc, events, store, held, steps,
      clients, batches, links, heap, last, bat, remote, buf, done,
      thr, seenPair, req>>
callVars == <<call>>
subVars == <<subs, registry, deliv, canc, events>>
authVars == <<store, held, steps>>
lifeVars == <<clients, batches, links, heap, last>>
batchVars == <<bat, remote, buf, done>>
concVars == <<thr, seenPair>>
reqVars == <<req>>

\* What the actions of each specification leave unchanged.
callOthers == <<subVars, authVars, lifeVars, batchVars, concVars, reqVars>>
subOthers == <<callVars, authVars, lifeVars, batchVars, concVars, reqVars>>
authOthers == <<callVars, subVars, lifeVars, batchVars, concVars, reqVars>>
lifeOthers == <<callVars, subVars, authVars, batchVars, concVars, reqVars>>
batchOthers == <<callVars, subVars, authVars, lifeVars, concVars, reqVars>>
concOthers == <<callVars, subVars, held, steps, lifeVars, batchVars, reqVars>>
reqOthers == <<callVars, subVars, authVars, lifeVars, batchVars, concVars>>

(***************************************************************************)
(* Pointers and text.  A C string is a TLA+ string; the null pointer is    *)
(* the token Null, distinct from every text including the empty one.       *)
(***************************************************************************)
Null == "<null>"

IsAbsent(text) == text = Null \/ text = ""

(***************************************************************************)
(* JSON documents (nlohmann::json): [t |-> type, v |-> payload].  An       *)
(* object's payload is a function from its keys to documents; std::map and *)
(* nlohmann's object both iterate keys in sorted order (KeyOrder).         *)
(***************************************************************************)
JNull == [t |-> "null", v |-> 0]
JNum(n) == [t |-> "number", v |-> n]
JStr(s) == [t |-> "string", v |-> s]
JBool(b) == [t |-> "boolean", v |-> b]
JArr(q) == [t |-> "array", v |-> q]
JObj(f) == [t |-> "object", v |-> f]
JParseError(what) == [t |-> "parse_error", v |-> what]

EmptyMap == [k \in {} |-> JNull]
EmptyObject == JObj(EmptyMap)

KeyOrder == <<"a", "b", "code", "message">>

\* The texts a caller passes in this model, by shape: absent (null or
\* empty), an object, an array, a scalar, and text that is not JSON.
TextObject == "{\"a\":1,\"b\":\"x\"}"
TextArray == "[1]"
TextScalar == "5"
TextBad == "{bad"

Texts == {Null, "", TextObject, TextArray, TextScalar, TextBad}

\* Header objects with values of the other JSON types.
TextMixed == "{\"a\":true,\"b\":null}"
TextNested == "{\"code\":[1],\"message\":{\"a\":1}}"
HeaderTexts == {Null, "", TextObject, TextMixed, TextNested, TextArray, TextBad}

\* nlohmann::json::parse on the texts of the model: the parsed document, or
\* the parse_error it throws.
json_parse(text) ==
    CASE text = TextObject -> JObj([k \in {"a", "b"} |-> IF k = "a" THEN JNum(1) ELSE JStr("x")])
      [] text = TextArray -> JArr(<<JNum(1)>>)
      [] text = TextScalar -> JNum(5)
      [] text = "{}" -> EmptyObject
      [] text = TextMixed -> JObj([k \in {"a", "b"} |-> IF k = "a" THEN JBool(TRUE) ELSE JNull])
      [] text = TextNested ->
            JObj([k \in {"code", "message"} |->
                    IF k = "code" THEN JArr(<<JNum(1)>>)
                    ELSE JObj([m \in {"a"} |-> JNum(1)])])
      [] OTHER -> JParseError("[json.exception.parse_error.101] parse error")

RECURSIVE dump(_)
RECURSIVE DumpMembers(_, _, _)
RECURSIVE DumpItems(_, _)

\* Members of object payload f from KeyOrder[i] on; first tells whether a
\* member was already written (comma placement).
DumpMembers(f, i, first) ==
    IF i > Len(KeyOrder) THEN ""
    ELSE IF KeyOrder[i] \in DOMAIN f
         THEN (IF first THEN "" ELSE ",") \o "\"" \o KeyOrder[i] \o "\":"
              \o dump(f[KeyOrder[i]]) \o DumpMembers(f, i + 1, FALSE)
         ELSE DumpMembers(f, i + 1, first)

DumpItems(q, i) ==
    IF i > Len(q) THEN ""
    ELSE (IF i = 1 THEN "" ELSE ",") \o dump(q[i]) \o DumpItems(q, i + 1)

\* nlohmann::json::dump(): compact serialisation.
dump(j) ==
    CASE j.t = "null" -> "null"
      [] j.t = "number" -> ToString(j.v)
      [] j.t = "string" -> "\"" \o j.v \o "\""
      [] j.t = "boolean" -> (IF j.v THEN "true" ELSE "false")
      [] j.t = "array" -> "[" \o DumpItems(j.v, 1) \o "]"
      [] j.t = "object" -> "{" \o DumpMembers(j.v, 1, TRUE) \o "}"

\* A string handed across the boundary: where its bytes live and what they
\* are.  dup_string makes a fresh heap copy the caller owns.
dup_string(s) == [mem |-> "heap", text |-> s]

NoString == [mem |-> "none", text |-> Null]

\* dup_json: the heap copy of the serialised document.
dup_json(j) == dup_string(dump(j))

(***************************************************************************)
(* Failure signals of the inner library.  ClientResponseError carries      *)
(* status, url, abort flag and response document; it is a std::exception   *)
(* (the handlers of wrap_json list it before std::exception), so what() is *)
(* defined for it as well.                                                 *)
(***************************************************************************)
NoSignal ==
    [kind |-> "none", status |-> 0, url |-> "", abort |-> FALSE,
     response |-> JNull, what |-> ""]

ClientResponseError(s, u, a, r) ==
    [kind |-> "transport", status |-> s, url |-> u, abort |-> a,
     response |-> r, what |-> "ClientResponseError"]

runtime_error(w) ==
    [kind |-> "generic", status |-> 0, url |-> "", abort |-> FALSE,
     response |-> JNull, what |-> w]

ResponseBody ==
    JObj([k \in {"code", "message"} |->
            IF k = "code" THEN JNum(400) ELSE JStr("Failed to authenticate.")])

Signals ==
    {ClientResponseError(400, "http://h/api/x", FALSE, ResponseBody),
     ClientResponseError(0, "http://h/api/x", TRUE, EmptyObject),
     runtime_error("inner failure")}

\* Result of a marshaling helper or of an inner call: raised is NoSignal
\* when it returned val.
Returned(v) == [raised |-> NoSignal, val |-> v]
Raised(sig) == [raised |-> sig, val |-> JNull]

(***************************************************************************)
(* Error values.                                                           *)
(***************************************************************************)
\* make_error with the response field filled like the transport overload.
make_error_fills_response(message) ==
    [status |-> -1, is_abort |-> 0, url |-> Null,
     message |-> dup_string(message).text, response |-> dup_string(message).text]

make_error(message) ==
    [status |-> -1, is_abort |-> 0, url |-> Null,
     message |-> dup_string(message).text, response |-> Null]

make_error_ex(ex) ==
    [status |-> ex.status, is_abort |-> IF ex.abort THEN 1 ELSE 0,
     url |-> dup_string(ex.url).text,
     message |-> dup_string(dump(ex.response)).text,
     response |-> dup_string(dump(ex.response)).text]

NoError ==
    [status |-> 0, is_abort |-> 0, url |-> Null, message |-> Null, response |-> Null]

(***************************************************************************)
(* Parameter marshaling.                                                   *)
(***************************************************************************)
\* parse_json_or that takes the fallback for a null pointer only.
parse_json_or_null_only(text) ==
    IF text = Null THEN Returned(EmptyObject)
    ELSE LET parsed == json_parse(text)
         IN  IF parsed.t = "parse_error" THEN Raised(runtime_error(parsed.v))
             ELSE Returned(parsed)

\* parse_json_or with its default fallback, the empty object: every call
\* site passes nlohmann::json::object().
parse_json_or(text) ==
    IF IsAbsent(text) THEN Returned(EmptyObject)
    ELSE LET parsed == json_parse(text)
         IN  IF parsed.t = "parse_error" THEN Raised(runtime_error(parsed.v))
             ELSE Returned(parsed)

\* parse_query without the is_object test.
parse_query_any_shape(text) ==
    IF IsAbsent(text) THEN Returned(EmptyObject)
    ELSE LET parsed == json_parse(text)
         IN  IF parsed.t = "parse_error" THEN Raised(runtime_error(parsed.v))
             ELSE Returned(parsed)

parse_query(text) ==
    IF IsAbsent(text) THEN Returned(EmptyObject)
    ELSE LET parsed == json_parse(text)
         IN  IF parsed.t = "parse_error" THEN Raised(runtime_error(parsed.v))
             ELSE IF parsed.t # "object"
                  THEN Raised(runtime_error("query_json must be an object"))
                  ELSE Returned(parsed)

\* parse_headers that keeps string values and drops the others.
parse_headers_strings_only(text) ==
    IF IsAbsent(text) THEN Returned(EmptyObject)
    ELSE LET parsed == json_parse(text)
         IN  IF parsed.t = "parse_error" THEN Raised(runtime_error(parsed.v))
             ELSE IF parsed.t # "object"
                  THEN Raised(runtime_error("headers_json must be an object"))
                  ELSE Returned(JObj([k \in {x \in DOMAIN parsed.v : parsed.v[x].t = "string"} |->
                            parsed.v[k]]))

\* The header map as an object whose members are all strings.
parse_headers(text) ==
    IF IsAbsent(text) THEN Returned(EmptyObject)
    ELSE LET parsed == json_parse(text)
         IN  IF parsed.t = "parse_error" THEN Raised(runtime_error(parsed.v))
             ELSE IF parsed.t # "object"
                  THEN Raised(runtime_error("headers_json must be an object"))
                  ELSE Returned(JObj([k \in DOMAIN parsed.v |->
                            IF parsed.v[k].t = "string" THEN parsed.v[k]
                            ELSE JStr(dump(parsed.v[k]))]))

(***************************************************************************)
(* Inputs of one call.                                                     *)
(*   handle  "null" or "valid": the client/batch/subscription argument     *)
(*   cb      the callback argument is non-null                             *)
(*   doc, query, hdr   the text passed for the document, query and header  *)
(*           parameters the entry point accepts                            *)
(*   file    at least one attachment is passed                             *)
(*   failAt  which inner call raises: "none", "accessor" (the service      *)
(*           lookup client->impl->collection(..)), or "op" (the operation) *)
(*   sig     the signal raised there; the lookup issues no request, so it  *)
(*           raises no transport failure                                   *)
(*   outVal, outErr   the value / error out-pointer is non-null            *)
(***************************************************************************)
RequestSteps == {"op", "append", "register"}

\* The steps without the test for a missing attachment.
Step_no_file_check(kind, in) ==
    CASE kind = "doc" -> parse_json_or(in.doc).raised
      [] kind = "query" -> parse_query(in.query).raised
      [] kind = "headers" -> parse_headers(in.hdr).raised
      [] kind = "files" -> NoSignal
      [] kind = "requireFile" -> NoSignal
      [] kind = "accessor" -> IF in.failAt = "accessor" THEN in.sig ELSE NoSignal
      [] kind \in RequestSteps -> IF in.failAt = "op" THEN in.sig ELSE NoSignal

\* The signal one step of an entry point raises on input in (NoSignal when
\* it completes).
Step(kind, in) ==
    CASE kind = "doc" -> parse_json_or(in.doc).raised
      [] kind = "query" -> parse_query(in.query).raised
      [] kind = "headers" -> parse_headers(in.hdr).raised
      [] kind = "files" -> NoSignal
      [] kind = "requireFile" ->
            IF in.file THEN NoSignal
            ELSE runtime_error("file is required for backup upload")
      [] kind = "accessor" -> IF in.failAt = "accessor" THEN in.sig ELSE NoSignal
      [] kind \in RequestSteps -> IF in.failAt = "op" THEN in.sig ELSE NoSignal

RECURSIVE RunFrom(_, _, _, _)

\* The run that invokes a request operation a second time when it raised.
RunFrom_retries(stepSeq, i, in, n) ==
    IF i > Len(stepSeq) THEN [raised |-> NoSignal, inner |-> n]
    ELSE LET sig == Step(stepSeq[i], in)
             m == IF stepSeq[i] \in RequestSteps
                  THEN (IF sig.kind # "none" THEN n + 2 ELSE n + 1)
                  ELSE n
         IN  IF sig.kind # "none" THEN [raised |-> sig, inner |-> m]
             ELSE RunFrom(stepSeq, i + 1, in, m)

\* Runs steps[i..] in order and stops at the first one that raises; inner
\* counts the inner operations that were invoked.
RunFrom(stepSeq, i, in, n) ==
    IF i > Len(stepSeq) THEN [raised |-> NoSignal, inner |-> n]
    ELSE LET sig == Step(stepSeq[i], in)
             m == IF stepSeq[i] \in RequestSteps THEN n + 1 ELSE n
         IN  IF sig.kind # "none" THEN [raised |-> sig, inner |-> m]
             ELSE RunFrom(stepSeq, i + 1, in, m)

RunSteps(stepSeq, in) == RunFrom(stepSeq, 1, in, 0)

\* What the inner operation returns when it succeeds.
OpDocument == JObj([k \in {"a"} |-> JNum(1)])
OpText == "http://h/api/files/c/r/f.png"
StoredToken == "tok1"

Untouched == [written |-> FALSE, v |-> NoString]
ErrUntouched == [written |-> FALSE, v |-> NoError]

Result(ret, val, err, str, inner, escaped) ==
    [ret |-> ret, val |-> val, err |-> err, str |-> str,
     inner |-> inner, escaped |-> escaped, allocs |-> 0, thrown |-> NoSignal]

\* The handlers of a try block with the given catch clauses, applied to a
\* raised signal: the error slot after the handler ran, the number of Error
\* Values the handler allocated, or escaped.
Catch(catches, sig, in) ==
    IF sig.kind = "transport" /\ "transport" \in catches
    THEN [escaped |-> FALSE,
          err |-> IF in.outErr THEN [written |-> TRUE, v |-> make_error_ex(sig)]
                  ELSE ErrUntouched,
          allocs |-> IF in.outErr THEN 1 ELSE 0]
    ELSE IF "generic" \in catches
    THEN [escaped |-> FALSE,
          err |-> IF in.outErr THEN [written |-> TRUE, v |-> make_error(sig.what)]
                  ELSE ErrUntouched,
          allocs |-> IF in.outErr THEN 1 ELSE 0]
    ELSE [escaped |-> TRUE, err |-> ErrUntouched, allocs |-> 0]

\* A wrapper's failure return: -1, the value slot as given, and what its
\* handler did to the error slot.
Caught(val, run, in) ==
    LET c == Catch({"transport", "generic"}, run.raised, in)
    IN  [Result("-1", val, c.err, NoString, run.inner, FALSE)
            EXCEPT !.allocs = c.allocs]

\* wrap_json whose handler lets the exception continue to the caller's try
\* block after writing the error.
wrap_json_rethrows(run, in) ==
    IF run.raised.kind = "none"
    THEN Result("0",
                IF in.outVal THEN [written |-> TRUE, v |-> dup_json(OpDocument)]
                ELSE Untouched,
                ErrUntouched, NoString, run.inner, FALSE)
    ELSE [Caught(Untouched, run, in)
             EXCEPT !.escaped = TRUE, !.thrown = run.raised]

\* wrap_json that resets *out_json to null when the lambda raised.
wrap_json_clears_value(run, in) ==
    IF run.raised.kind = "none"
    THEN Result("0",
                IF in.outVal THEN [written |-> TRUE, v |-> dup_json(OpDocument)]
                ELSE Untouched,
                ErrUntouched, NoString, run.inner, FALSE)
    ELSE Caught(IF in.outVal THEN [written |-> TRUE, v |-> NoString] ELSE Untouched,
                run, in)

\* wrap_json around a lambda whose run is `run`.
wrap_json(run, in) ==
    IF run.raised.kind = "none"
    THEN Result("0",
                IF in.outVal THEN [written |-> TRUE, v |-> dup_json(OpDocument)]
                ELSE Untouched,
                ErrUntouched, NoString, run.inner, FALSE)
    ELSE Caught(Untouched, run, in)

wrap_void(run, in) ==
    IF run.raised.kind = "none"
    THEN Result("0", Untouched, ErrUntouched, NoString, run.inner, FALSE)
    ELSE Caught(Untouched, run, in)

\* Return value of an entry point on its failure paths.
FailRet(ep) ==
    CASE ep.ret = "int" -> "-1"
      [] ep.ret \in {"sub", "batch", "client", "str"} -> "null"
      [] ep.ret = "cstr" -> "empty"
      [] OTHER -> "void"

\* Return of a call whose handle check failed.
Rejected(ep) ==
    Result(CASE ep.nullret = "fail" -> "-1"
             [] ep.nullret = "null" -> "null"
             [] ep.nullret = "empty" -> "empty"
             [] OTHER -> "void",
           Untouched, ErrUntouched,
           IF ep.nullret = "empty" THEN [mem |-> "static", text |-> ""] ELSE NoString,
           0, FALSE)

\* Return of an entry point that runs its operation directly (no wrapper)
\* and succeeded.
Completed(ep, in, inner) ==
    CASE ep.out \in {"url", "string"} ->
            Result("0",
                   IF in.outVal THEN [written |-> TRUE, v |-> dup_string(OpText)]
                   ELSE Untouched,
                   ErrUntouched, NoString, inner, FALSE)
      [] ep.out \in {"sub", "batch", "client"} ->
            Result("handle", Untouched, ErrUntouched, NoString, inner, FALSE)
      [] ep.out = "cstr" ->
            Result("string", Untouched, ErrUntouched,
                   [mem |-> "internal", text |-> StoredToken], inner, FALSE)
      [] ep.out = "str" ->
            Result("string", Untouched, ErrUntouched, dup_json(OpDocument), inner, FALSE)
      [] OTHER ->
            Result(IF ep.ret = "int" THEN "0" ELSE "void",
                   Untouched, ErrUntouched, NoString, inner, FALSE)

\* The handle check that tests the callback only.
HandleRejected_callback_only(ep, in) ==
    /\ ep.check # "none"
    /\ \/ ep.check # "cb" /\ in.handle = "null"
       \/ ep.check = "cb" /\ ~in.cb

\* The handle check every entry point starts with.
HandleRejected(ep, in) ==
    /\ ep.check # "none"
    /\ \/ in.handle = "null"
       \/ ep.check = "cb" /\ ~in.cb

\* The entry point's own try block around the wrapper call: what the
\* wrapper returned normally is returned as is, what it let through meets the
\* entry point's catch clauses.
Around(ep, r, in) ==
    IF ~r.escaped THEN r
    ELSE LET c == Catch(ep.catches, r.thrown, in)
         IN  [r EXCEPT !.ret = IF c.escaped THEN "none" ELSE FailRet(ep),
                       !.err = IF c.err.written THEN c.err ELSE @,
                       !.allocs = @ + c.allocs,
                       !.escaped = c.escaped]

\* One call of entry point ep on input in, from the handle check to the
\* return.
Dispatch(ep, in) ==
    IF HandleRejected(ep, in) THEN Rejected(ep)
    ELSE LET pre == RunSteps(ep.pre, in)
         IN  IF pre.raised.kind # "none"
             THEN LET c == Catch(ep.catches, pre.raised, in)
                  IN  [Result(IF c.escaped THEN "none" ELSE FailRet(ep),
                              Untouched, c.err, NoString, pre.inner, c.escaped)
                         EXCEPT !.allocs = c.allocs]
             ELSE IF ep.wrap = "json"
                  THEN LET r == Around(ep, wrap_json(RunSteps(ep.body, in), in), in)
                       IN  [r EXCEPT !.inner = @ + pre.inner]
             ELSE IF ep.wrap = "void"
                  THEN LET r == Around(ep, wrap_void(RunSteps(ep.body, in), in), in)
                       IN  [r EXCEPT !.inner = @ + pre.inner]
             ELSE Completed(ep, in, pre.inner)

\* The signal raised inside the call Dispatch(ep, in); NoSignal when every
\* step it ran completed.
RaisedIn(ep, in) ==
    IF HandleRejected(ep, in) THEN NoSignal
    ELSE LET pre == RunSteps(ep.pre, in)
         IN  IF pre.raised.kind # "none" THEN pre.raised
             ELSE RunSteps(ep.body, in).raised

(***************************************************************************)
(* The entry points, each as the shape of its body:                        *)
(*   ret      return type: int, void, sub/batch/client (a handle), cstr    *)
(*            (pointer to const char), str (pointer to char)               *)
(*   handle   the handle parameter; check, the test on it before anything  *)
(*            else ("impl": !h || !h->impl, "cb": also !callback,          *)
(*            "holder": !sub || !sub->holder); nullret, what that test     *)
(*            returns                                                      *)
(*   catches  the catch clauses of the function's own try block            *)
(*   pre      the steps inside that try block (or, without one, in the     *)
(*            function body) outside any wrapper                           *)
(*   wrap     the wrapper (wrap_json / wrap_void) and body, the steps of   *)
(*            the lambda passed to it                                      *)
(*   out      the value out-parameter or the kind of value returned        *)
(* Steps: "doc" parse_json_or, "query" parse_query, "headers"              *)
(* parse_headers, "files" convert_files, "requireFile" the attachment      *)
(* check of bosbase_backup_upload, "accessor" client->impl->collection(),  *)
(* "op" the inner operation, "append" a batch append, "register" the       *)
(* inner subscribe.  In bosbase_send and bosbase_auth_save the wrapper is  *)
(* called outside the try block; the wrappers raise nothing.  An entry     *)
(* point with two document parameters receives the same text for both.     *)
(***************************************************************************)
bosbase_client_new ==
    [ret |-> "client", handle |-> "none", check |-> "none", nullret |-> "void",
     catches |-> {}, pre |-> <<"op">>,
     wrap |-> "none", body |-> <<>>, out |-> "client"]

bosbase_client_free ==
    [ret |-> "void", handle |-> "client", check |-> "none", nullret |-> "void",
     catches |-> {}, pre |-> <<>>,
     wrap |-> "none", body |-> <<>>, out |-> "none"]

bosbase_batch_new ==
    [ret |-> "batch", handle |-> "client", check |-> "impl", nullret |-> "null",
     catches |-> {}, pre |-> <<"op">>,
     wrap |-> "none", body |-> <<>>, out |-> "batch"]

bosbase_batch_free ==
    [ret |-> "void", handle |-> "batch", check |-> "none", nullret |-> "void",
     catches |-> {}, pre |-> <<>>,
     wrap |-> "none", body |-> <<>>, out |-> "none"]

bosbase_auth_token ==
    [ret |-> "cstr", handle |-> "client", check |-> "impl", nullret |-> "empty",
     catches |-> {}, pre |-> <<"op">>,
     wrap |-> "none", body |-> <<>>, out |-> "cstr"]

bosbase_auth_record ==
    [ret |-> "str", handle |-> "client", check |-> "impl", nullret |-> "null",
     catches |-> {}, pre |-> <<"op">>,
     wrap |-> "none", body |-> <<>>, out |-> "str"]

bosbase_auth_save ==
    [ret |-> "int", handle |-> "client", check |-> "impl", nullret |-> "fail",
     catches |-> {}, pre |-> <<>>,
     wrap |-> "void", body |-> <<"doc", "op">>, out |-> "none"]

bosbase_auth_clear ==
    [ret |-> "void", handle |-> "client", check |-> "impl", nullret |-> "void",
     catches |-> {}, pre |-> <<"op">>,
     wrap |-> "none", body |-> <<>>, out |-> "none"]

bosbase_filter ==
    [ret |-> "int", handle |-> "client", check |-> "impl", nullret |-> "fail",
     catches |-> {"generic"}, pre |-> <<"query", "op">>,
     wrap |-> "none", body |-> <<>>, out |-> "string"]

bosbase_send ==
    [ret |-> "int", handle |-> "client", check |-> "impl", nullret |-> "fail",
     catches |-> {"generic"}, pre |-> <<"doc", "query", "headers", "files">>,
     wrap |-> "json", body |-> <<"op">>, out |-> "json"]

bosbase_collection_get_list ==
    [ret |-> "int", handle |-> "client", check |-> "impl", nullret |-> "fail",
     catches |-> {"generic"}, pre |-> <<"accessor", "query", "headers">>,
     wrap |-> "json", body |-> <<"op">>, out |-> "json"]

bosbase_collection_get_one ==
    [ret |-> "int", handle |-> "client", check |-> "impl", nullret |-> "fail",
     catches |-> {"generic"}, pre |-> <<"accessor", "query", "headers">>,
     wrap |-> "json", body |-> <<"op">>, out |-> "json"]

bosbase_collection_get_full_list ==
    [ret |-> "int", handle |-> "client", check |-> "impl", nullret |-> "fail",
     catches |-> {"generic"}, pre |-> <<"accessor", "query", "headers">>,
     wrap |-> "json", body |-> <<"op">>, out |-> "json"]

bosbase_collection_create ==
    [ret |-> "int", handle |-> "client", check |-> "impl", nullret |-> "fail",
     catches |-> {"generic"}, pre |-> <<"accessor", "doc", "query", "headers", "files">>,
     wrap |-> "json", body |-> <<"op">>, out |-> "json"]

bosbase_collection_update ==
    [ret |-> "int", handle |-> "client", check |-> "impl", nullret |-> "fail",
     catches |-> {"generic"}, pre |-> <<"accessor", "doc", "query", "headers", "files">>,
     wrap |-> "json", body |-> <<"op">>, out |-> "json"]

bosbase_collection_delete ==
    [ret |-> "int", handle |-> "client", check |-> "impl", nullret |-> "fail",
     catches |-> {"generic"}, pre |-> <<"accessor", "doc", "query", "headers">>,
     wrap |-> "void", body |-> <<"op">>, out |-> "none"]

bosbase_collection_auth_with_password ==
    [ret |-> "int", handle |-> "client", check |-> "impl", nullret |-> "fail",
     catches |-> {"generic"}, pre |-> <<"accessor", "doc", "query", "headers">>,
     wrap |-> "json", body |-> <<"op">>, out |-> "json"]

bosbase_collection_auth_refresh ==
    [ret |-> "int", handle |-> "client", check |-> "impl", nullret |-> "fail",
     catches |-> {"generic"}, pre |-> <<"accessor", "doc", "query", "headers">>,
     wrap |-> "json", body |-> <<"op">>, out |-> "json"]

bosbase_collection_request_password_reset ==
    [ret |-> "int", handle |-> "client", check |-> "impl", nullret |-> "fail",
     catches |-> {"generic"}, pre |-> <<"accessor", "doc", "query", "headers">>,
     wrap |-> "void", body |-> <<"op">>, out |-> "none"]

bosbase_collection_confirm_password_reset ==
    [ret |-> "int", handle |-> "client", check |-> "impl", nullret |-> "fail",
     catches |-> {"generic"}, pre |-> <<"accessor", "doc", "query", "headers">>,
     wrap |-> "void", body |-> <<"op">>, out |-> "none"]

bosbase_collection_request_verification ==
    [ret |-> "int", handle |-> "client", check |-> "impl", nullret |-> "fail",
     catches |-> {"generic"}, pre |-> <<"accessor", "doc", "query", "headers">>,
     wrap |-> "void", body |-> <<"op">>, out |-> "none"]

bosbase_collection_confirm_verification ==
    [ret |-> "int", handle |-> "client", check |-> "impl", nullret |-> "fail",
     catches |-> {"generic"}, pre |-> <<"accessor", "doc", "query", "headers">>,
     wrap |-> "void", body |-> <<"op">>, out |-> "none"]

bosbase_collection_subscribe ==
    [ret |-> "sub", handle |-> "client", check |-> "cb", nullret |-> "null",
     catches |-> {"transport", "generic"}, pre |-> <<"accessor", "query", "headers", "register">>,
     wrap |-> "none", body |-> <<>>, out |-> "sub"]

bosbase_subscription_cancel ==
    [ret |-> "void", handle |-> "sub", check |-> "holder", nullret |-> "void",
     catches |-> {}, pre |-> <<"op">>,
     wrap |-> "none", body |-> <<>>, out |-> "none"]

bosbase_files_get_url ==
    [ret |-> "int", handle |-> "client", check |-> "impl", nullret |-> "fail",
     catches |-> {"transport", "generic"}, pre |-> <<"doc", "query", "op">>,
     wrap |-> "none", body |-> <<>>, out |-> "url"]

bosbase_files_get_token ==
    [ret |-> "int", handle |-> "client", check |-> "impl", nullret |-> "fail",
     catches |-> {"generic"}, pre |-> <<"query", "headers">>,
     wrap |-> "json", body |-> <<"op">>, out |-> "json"]

bosbase_health_check ==
    [ret |-> "int", handle |-> "client", check |-> "impl", nullret |-> "fail",
     catches |-> {"generic"}, pre |-> <<"query", "headers">>,
     wrap |-> "json", body |-> <<"op">>, out |-> "json"]

bosbase_graphql_query ==
    [ret |-> "int", handle |-> "client", check |-> "impl", nullret |-> "fail",
     catches |-> {"generic"}, pre |-> <<"doc", "query", "headers">>,
     wrap |-> "json", body |-> <<"op">>, out |-> "json"]

bosbase_sql_execute ==
    [ret |-> "int", handle |-> "client", check |-> "impl", nullret |-> "fail",
     catches |-> {"transport", "generic"}, pre |-> <<"query", "headers">>,
     wrap |-> "json", body |-> <<"op">>, out |-> "json"]

bosbase_vector_create_collection ==
    [ret |-> "int", handle |-> "client", check |-> "impl", nullret |-> "fail",
     catches |-> {"generic"}, pre |-> <<"doc", "query", "headers">>,
     wrap |-> "json", body |-> <<"op">>, out |-> "json"]

bosbase_vector_update_collection ==
    [ret |-> "int", handle |-> "client", check |-> "impl", nullret |-> "fail",
     catches |-> {"generic"}, pre |-> <<"doc", "query", "headers">>,
     wrap |-> "json", body |-> <<"op">>, out |-> "json"]

bosbase_vector_list_collections ==
    [ret |-> "int", handle |-> "client", check |-> "impl", nullret |-> "fail",
     catches |-> {"generic"}, pre |-> <<"query", "headers">>,
     wrap |-> "json", body |-> <<"op">>, out |-> "json"]

bosbase_vector_delete_collection ==
    [ret |-> "int", handle |-> "client", check |-> "impl", nullret |-> "fail",
     catches |-> {"generic"}, pre |-> <<"query", "headers">>,
     wrap |-> "void", body |-> <<"op">>, out |-> "none"]

bosbase_vector_insert ==
    [ret |-> "int", handle |-> "client", check |-> "impl", nullret |-> "fail",
     catches |-> {"generic"}, pre |-> <<"doc", "query", "headers">>,
     wrap |-> "json", body |-> <<"op">>, out |-> "json"]

bosbase_vector_batch_insert ==
    [ret |-> "int", handle |-> "client", check |-> "impl", nullret |-> "fail",
     catches |-> {"generic"}, pre |-> <<"doc", "query", "headers">>,
     wrap |-> "json", body |-> <<"op">>, out |-> "json"]

bosbase_vector_get ==
    [ret |-> "int", handle |-> "client", check |-> "impl", nullret |-> "fail",
     catches |-> {"generic"}, pre |-> <<"query", "headers">>,
     wrap |-> "json", body |-> <<"op">>, out |-> "json"]

bosbase_vector_update ==
    [ret |-> "int", handle |-> "client", check |-> "impl", nullret |-> "fail",
     catches |-> {"generic"}, pre |-> <<"doc", "query", "headers">>,
     wrap |-> "json", body |-> <<"op">>, out |-> "json"]

bosbase_vector_delete ==
    [ret |-> "int", handle |-> "client", check |-> "impl", nullret |-> "fail",
     catches |-> {"generic"}, pre |-> <<"query", "headers">>,
     wrap |-> "void", body |-> <<"op">>, out |-> "none"]

bosbase_vector_list ==
    [ret |-> "int", handle |-> "client", check |-> "impl", nullret |-> "fail",
     catches |-> {"generic"}, pre |-> <<"query", "headers">>,
     wrap |-> "json", body |-> <<"op">>, out |-> "json"]

bosbase_vector_search ==
    [ret |-> "int", handle |-> "client", check |-> "impl", nullret |-> "fail",
     catches |-> {"generic"}, pre |-> <<"doc", "query", "headers">>,
     wrap |-> "json", body |-> <<"op">>, out |-> "json"]

bosbase_cache_list ==
    [ret |-> "int", handle |-> "client", check |-> "impl", nullret |-> "fail",
     catches |-> {"generic"}, pre |-> <<"query", "headers">>,
     wrap |-> "json", body |-> <<"op">>, out |-> "json"]

bosbase_cache_create ==
    [ret |-> "int", handle |-> "client", check |-> "impl", nullret |-> "fail",
     catches |-> {"generic"}, pre |-> <<"doc", "query", "headers">>,
     wrap |-> "json", body |-> <<"op">>, out |-> "json"]

bosbase_cache_update ==
    [ret |-> "int", handle |-> "client", check |-> "impl", nullret |-> "fail",
     catches |-> {"generic"}, pre |-> <<"doc", "query", "headers">>,
     wrap |-> "json", body |-> <<"op">>, out |-> "json"]

bosbase_cache_delete ==
    [ret |-> "int", handle |-> "client", check |-> "impl", nullret |-> "fail",
     catches |-> {"generic"}, pre |-> <<"query", "headers">>,
     wrap |-> "void", body |-> <<"op">>, out |-> "none"]

bosbase_cache_set_entry ==
    [ret |-> "int", handle |-> "client", check |-> "impl", nullret |-> "fail",
     catches |-> {"generic"}, pre |-> <<"doc", "doc", "query", "headers">>,
     wrap |-> "json", body |-> <<"op">>, out |-> "json"]

bosbase_cache_get_entry ==
    [ret |-> "int", handle |-> "client", check |-> "impl", nullret |-> "fail",
     catches |-> {"generic"}, pre |-> <<"query", "headers">>,
     wrap |-> "json", body |-> <<"op">>, out |-> "json"]

bosbase_cache_renew_entry ==
    [ret |-> "int", handle |-> "client", check |-> "impl", nullret |-> "fail",
     catches |-> {"generic"}, pre |-> <<"doc", "query", "headers">>,
     wrap |-> "json", body |-> <<"op">>, out |-> "json"]

bosbase_cache_delete_entry ==
    [ret |-> "int", handle |-> "client", check |-> "impl", nullret |-> "fail",
     catches |-> {"generic"}, pre |-> <<"query", "headers">>,
     wrap |-> "void", body |-> <<"op">>, out |-> "none"]

bosbase_backup_get_full_list ==
    [ret |-> "int", handle |-> "client", check |-> "impl", nullret |-> "fail",
     catches |-> {"generic"}, pre |-> <<"query", "headers">>,
     wrap |-> "json", body |-> <<"op">>, out |-> "json"]

bosbase_backup_create ==
    [ret |-> "int", handle |-> "client", check |-> "impl", nullret |-> "fail",
     catches |-> {"generic"}, pre |-> <<"query", "headers">>,
     wrap |-> "json", body |-> <<"op">>, out |-> "json"]

bosbase_backup_upload ==
    [ret |-> "int", handle |-> "client", check |-> "impl", nullret |-> "fail",
     catches |-> {"generic"}, pre |-> <<"files", "requireFile", "query", "headers">>,
     wrap |-> "json", body |-> <<"op">>, out |-> "json"]

bosbase_backup_delete ==
    [ret |-> "int", handle |-> "client", check |-> "impl", nullret |-> "fail",
     catches |-> {"generic"}, pre |-> <<"query", "headers">>,
     wrap |-> "void", body |-> <<"op">>, out |-> "none"]

bosbase_backup_restore ==
    [ret |-> "int", handle |-> "client", check |-> "impl", nullret |-> "fail",
     catches |-> {"generic"}, pre |-> <<"query", "headers">>,
     wrap |-> "json", body |-> <<"op">>, out |-> "json"]

bosbase_backup_get_download_url ==
    [ret |-> "int", handle |-> "client", check |-> "impl", nullret |-> "fail",
     catches |-> {"generic"}, pre |-> <<"op">>,
     wrap |-> "none", body |-> <<>>, out |-> "url"]

bosbase_cron_get_full_list ==
    [ret |-> "int", handle |-> "client", check |-> "impl", nullret |-> "fail",
     catches |-> {"generic"}, pre |-> <<"query", "headers">>,
     wrap |-> "json", body |-> <<"op">>, out |-> "json"]

bosbase_cron_run ==
    [ret |-> "int", handle |-> "client", check |-> "impl", nullret |-> "fail",
     catches |-> {"generic"}, pre |-> <<"query", "headers">>,
     wrap |-> "json", body |-> <<"op">>, out |-> "json"]

bosbase_logs_get_list ==
    [ret |-> "int", handle |-> "client", check |-> "impl", nullret |-> "fail",
     catches |-> {"generic"}, pre |-> <<"query", "headers">>,
     wrap |-> "json", body |-> <<"op">>, out |-> "json"]

bosbase_logs_get_one ==
    [ret |-> "int", handle |-> "client", check |-> "impl", nullret |-> "fail",
     catches |-> {"generic"}, pre |-> <<"query", "headers">>,
     wrap |-> "json", body |-> <<"op">>, out |-> "json"]

bosbase_logs_get_stats ==
    [ret |-> "int", handle |-> "client", check |-> "impl", nullret |-> "fail",
     catches |-> {"generic"}, pre |-> <<"query", "headers">>,
     wrap |-> "json", body |-> <<"op">>, out |-> "json"]

bosbase_settings_get_all ==
    [ret |-> "int", handle |-> "client", check |-> "impl", nullret |-> "fail",
     catches |-> {"generic"}, pre |-> <<"query", "headers">>,
     wrap |-> "json", body |-> <<"op">>, out |-> "json"]

bosbase_settings_update ==
    [ret |-> "int", handle |-> "client", check |-> "impl", nullret |-> "fail",
     catches |-> {"generic"}, pre |-> <<"doc", "query", "headers">>,
     wrap |-> "json", body |-> <<"op">>, out |-> "json"]

bosbase_settings_test_s3 ==
    [ret |-> "int", handle |-> "client", check |-> "impl", nullret |-> "fail",
     catches |-> {"generic"}, pre |-> <<"query", "headers">>,
     wrap |-> "json", body |-> <<"op">>, out |-> "json"]

bosbase_settings_test_email ==
    [ret |-> "int", handle |-> "client", check |-> "impl", nullret |-> "fail",
     catches |-> {"generic"}, pre |-> <<"query", "headers">>,
     wrap |-> "json", body |-> <<"op">>, out |-> "json"]

bosbase_settings_generate_apple_client_secret ==
    [ret |-> "int", handle |-> "client", check |-> "impl", nullret |-> "fail",
     catches |-> {"generic"}, pre |-> <<"query", "headers">>,
     wrap |-> "json", body |-> <<"op">>, out |-> "json"]

bosbase_langchaingo_completions ==
    [ret |-> "int", handle |-> "client", check |-> "impl", nullret |-> "fail",
     catches |-> {"generic"}, pre |-> <<"doc", "query", "headers">>,
     wrap |-> "json", body |-> <<"op">>, out |-> "json"]

bosbase_langchaingo_rag ==
    [ret |-> "int", handle |-> "client", check |-> "impl", nullret |-> "fail",
     catches |-> {"generic"}, pre |-> <<"doc", "query", "headers">>,
     wrap |-> "json", body |-> <<"op">>, out |-> "json"]

bosbase_langchaingo_query_documents ==
    [ret |-> "int", handle |-> "client", check |-> "impl", nullret |-> "fail",
     catches |-> {"generic"}, pre |-> <<"doc", "query", "headers">>,
     wrap |-> "json", body |-> <<"op">>, out |-> "json"]

bosbase_langchaingo_sql ==
    [ret |-> "int", handle |-> "client", check |-> "impl", nullret |-> "fail",
     catches |-> {"generic"}, pre |-> <<"doc", "query", "headers">>,
     wrap |-> "json", body |-> <<"op">>, out |-> "json"]

bosbase_llm_list_collections ==
    [ret |-> "int", handle |-> "client", check |-> "impl", nullret |-> "fail",
     catches |-> {"generic"}, pre |-> <<"query", "headers">>,
     wrap |-> "json", body |-> <<"op">>, out |-> "json"]

bosbase_llm_create_collection ==
    [ret |-> "int", handle |-> "client", check |-> "impl", nullret |-> "fail",
     catches |-> {"generic"}, pre |-> <<"query", "headers", "doc">>,
     wrap |-> "void", body |-> <<"op">>, out |-> "none"]

bosbase_llm_delete_collection ==
    [ret |-> "int", handle |-> "client", check |-> "impl", nullret |-> "fail",
     catches |-> {"generic"}, pre |-> <<"query", "headers">>,
     wrap |-> "void", body |-> <<"op">>, out |-> "none"]

bosbase_llm_insert ==
    [ret |-> "int", handle |-> "client", check |-> "impl", nullret |-> "fail",
     catches |-> {"generic"}, pre |-> <<"doc", "query", "headers">>,
     wrap |-> "json", body |-> <<"op">>, out |-> "json"]

bosbase_llm_get ==
    [ret |-> "int", handle |-> "client", check |-> "impl", nullret |-> "fail",
     catches |-> {"generic"}, pre |-> <<"query", "headers">>,
     wrap |-> "json", body |-> <<"op">>, out |-> "json"]

bosbase_llm_update ==
    [ret |-> "int", handle |-> "client", check |-> "impl", nullret |-> "fail",
     catches |-> {"generic"}, pre |-> <<"doc", "query", "headers">>,
     wrap |-> "json", body |-> <<"op">>, out |-> "json"]

bosbase_llm_delete ==
    [ret |-> "int", handle |-> "client", check |-> "impl", nullret |-> "fail",
     catches |-> {"generic"}, pre |-> <<"query", "headers">>,
     wrap |-> "void", body |-> <<"op">>, out |-> "none"]

bosbase_llm_list ==
    [ret |-> "int", handle |-> "client", check |-> "impl", nullret |-> "fail",
     catches |-> {"generic"}, pre |-> <<"query", "headers">>,
     wrap |-> "json", body |-> <<"op">>, out |-> "json"]

bosbase_llm_query ==
    [ret |-> "int", handle |-> "client", check |-> "impl", nullret |-> "fail",
     catches |-> {"generic"}, pre |-> <<"doc", "query", "headers">>,
     wrap |-> "json", body |-> <<"op">>, out |-> "json"]

bosbase_batch_collection_create ==
    [ret |-> "int", handle |-> "batch", check |-> "impl", nullret |-> "fail",
     catches |-> {"transport", "generic"}, pre |-> <<"doc", "query", "files", "append">>,
     wrap |-> "none", body |-> <<>>, out |-> "none"]

bosbase_batch_collection_upsert ==
    [ret |-> "int", handle |-> "batch", check |-> "impl", nullret |-> "fail",
     catches |-> {"transport", "generic"}, pre |-> <<"doc", "query", "files", "append">>,
     wrap |-> "none", body |-> <<>>, out |-> "none"]

bosbase_batch_collection_update ==
    [ret |-> "int", handle |-> "batch", check |-> "impl", nullret |-> "fail",
     catches |-> {"transport", "generic"}, pre |-> <<"doc", "query", "files", "append">>,
     wrap |-> "none", body |-> <<>>, out |-> "none"]

bosbase_batch_collection_delete ==
    [ret |-> "int", handle |-> "batch", check |-> "impl", nullret |-> "fail",
     catches |-> {"transport", "generic"}, pre |-> <<"doc", "query", "append">>,
     wrap |-> "none", body |-> <<>>, out |-> "none"]

bosbase_batch_send ==
    [ret |-> "int", handle |-> "batch", check |-> "impl", nullret |-> "fail",
     catches |-> {"transport", "generic"}, pre |-> <<"doc", "query", "headers">>,
     wrap |-> "json", body |-> <<"op">>, out |-> "json"]

bosbase_pubsub_publish ==
    [ret |-> "int", handle |-> "client", check |-> "impl", nullret |-> "fail",
     catches |-> {"transport", "generic"}, pre |-> <<"doc">>,
     wrap |-> "json", body |-> <<"op">>, out |-> "json"]

bosbase_pubsub_subscribe ==
    [ret |-> "sub", handle |-> "client", check |-> "cb", nullret |-> "null",
     catches |-> {"transport", "generic"}, pre |-> <<"register">>,
     wrap |-> "none", body |-> <<>>, out |-> "sub"]

bosbase_pubsub_disconnect ==
    [ret |-> "void", handle |-> "client", check |-> "impl", nullret |-> "void",
     catches |-> {}, pre |-> <<"op">>,
     wrap |-> "none", body |-> <<>>, out |-> "none"]

EntryPoints ==
    {bosbase_client_new,
     bosbase_client_free,
     bosbase_batch_new,
     bosbase_batch_free,
     bosbase_auth_token,
     bosbase_auth_record,
     bosbase_auth_save,
     bosbase_auth_clear,
     bosbase_filter,
     bosbase_send,
     bosbase_collection_get_list,
     bosbase_collection_get_one,
     bosbase_collection_get_full_list,
     bosbase_collection_create,
     bosbase_collection_update,
     bosbase_collection_delete,
     bosbase_collection_auth_with_password,
     bosbase_collection_auth_refresh,
     bosbase_collection_request_password_reset,
     bosbase_collection_confirm_password_reset,
     bosbase_collection_request_verification,
     bosbase_collection_confirm_verification,
     bosbase_collection_subscribe,
     bosbase_subscription_cancel,
     bosbase_files_get_url,
     bosbase_files_get_token,
     bosbase_health_check,
     bosbase_graphql_query,
     bosbase_sql_execute,
     bosbase_vector_create_collection,
     bosbase_vector_update_collection,
     bosbase_vector_list_collections,
     bosbase_vector_delete_collection,
     bosbase_vector_insert,
     bosbase_vector_batch_insert,
     bosbase_vector_get,
     bosbase_vector_update,
     bosbase_vector_delete,
     bosbase_vector_list,
     bosbase_vector_search,
     bosbase_cache_list,
     bosbase_cache_create,
     bosbase_cache_update,
     bosbase_cache_delete,
     bosbase_cache_set_entry,
     bosbase_cache_get_entry,
     bosbase_cache_renew_entry,
     bosbase_cache_delete_entry,
     bosbase_backup_get_full_list,
     bosbase_backup_create,
     bosbase_backup_upload,
     bosbase_backup_delete,
     bosbase_backup_restore,
     bosbase_backup_get_download_url,
     bosbase_cron_get_full_list,
     bosbase_cron_run,
     bosbase_logs_get_list,
     bosbase_logs_get_one,
     bosbase_logs_get_stats,
     bosbase_settings_get_all,
     bosbase_settings_update,
     bosbase_settings_test_s3,
     bosbase_settings_test_email,
     bosbase_settings_generate_apple_client_secret,
     bosbase_langchaingo_completions,
     bosbase_langchaingo_rag,
     bosbase_langchaingo_query_documents,
     bosbase_langchaingo_sql,
     bosbase_llm_list_collections,
     bosbase_llm_create_collection,
     bosbase_llm_delete_collection,
     bosbase_llm_insert,
     bosbase_llm_get,
     bosbase_llm_update,
     bosbase_llm_delete,
     bosbase_llm_list,
     bosbase_llm_query,
     bosbase_batch_collection_create,
     bosbase_batch_collection_upsert,
     bosbase_batch_collection_update,
     bosbase_batch_collection_delete,
     bosbase_batch_send,
     bosbase_pubsub_publish,
     bosbase_pubsub_subscribe,
     bosbase_pubsub_disconnect}
(***************************************************************************)
(* The dispatcher specification: the caller makes one call after another.  *)
(***************************************************************************)
Accepts(ep, kind) ==
    \/ \E i \in 1..Len(ep.pre) : ep.pre[i] = kind
    \/ \E i \in 1..Len(ep.body) : ep.body[i] = kind

Calls(ep, kinds) == \E k \in kinds : Accepts(ep, k)

\* The inputs a caller can pass to ep; parameters ep does not have are left
\* at their defaults.
Inputs(ep) ==
    {[handle |-> h, cb |-> c, doc |-> d, query |-> q, hdr |-> hd, file |-> f,
      failAt |-> fa, sig |-> s, outVal |-> ov, outErr |-> oe] :
        h \in (IF ep.handle = "none" THEN {"valid"} ELSE {"null", "valid"}),
        c \in (IF ep.check = "cb" THEN BOOLEAN ELSE {TRUE}),
        d \in (IF Accepts(ep, "doc") THEN Texts ELSE {Null}),
        q \in (IF Accepts(ep, "query") THEN Texts ELSE {Null}),
        hd \in (IF Accepts(ep, "headers") THEN Texts ELSE {Null}),
        f \in (IF Accepts(ep, "files") THEN BOOLEAN ELSE {FALSE}),
        fa \in {"none"} \cup (IF Accepts(ep, "accessor") THEN {"accessor"} ELSE {})
                        \cup (IF Calls(ep, RequestSteps) THEN {"op"} ELSE {}),
        s \in Signals,
        ov \in (IF ep.out \in {"json", "url", "string"} THEN BOOLEAN ELSE {FALSE}),
        oe \in (IF ep.ret \in {"int", "sub"} THEN BOOLEAN ELSE {FALSE})}

NoInput ==
    [handle |-> "valid", cb |-> TRUE, doc |-> Null, query |-> Null, hdr |-> Null,
     file |-> FALSE, failAt |-> "none", sig |-> NoSignal, outVal |-> FALSE,
     outErr |-> FALSE]

NoCall ==
    [ep |-> bosbase_client_free, in |-> NoInput,
     res |-> Dispatch(bosbase_client_free, NoInput), raised |-> NoSignal,
     made |-> FALSE]

CallInit == call = NoCall

\* The caller invokes an entry point and the call returns (or lets a
\* failure signal escape).
Invoke ==
    /\ ~call.made
    /\ \E ep \in EntryPoints : \E in \in Inputs(ep) :
          /\ in.failAt = "none" => in.sig = runtime_error("inner failure")
          /\ in.failAt = "accessor" => in.sig.kind = "generic"
          /\ call' = [ep |-> ep, in |-> in, res |-> Dispatch(ep, in),
                      raised |-> RaisedIn(ep, in), made |-> TRUE]
    /\ UNCHANGED callOthers

\* The caller has looked at the outcome and goes on to its next call.
Proceed ==
    /\ call.made
    /\ call' = NoCall
    /\ UNCHANGED callOthers

(***************************************************************************)
(* The subscription bridge.                                                *)
(*                                                                         *)
(* bosbase_collection_subscribe and bosbase_pubsub_subscribe hand a lambda *)
(* to the inner transport, which calls it on its delivery thread for each  *)
(* event; the lambda serialises the event, calls the caller's callback and *)
(* frees the buffer.  bosbase_subscription_cancel calls the capability the *)
(* registration returned and deletes the handle.  The boundary holds no    *)
(* lock, flag or join of its own: the lambda captures only callback and    *)
(* user_data, and cancel does nothing between the inner call and delete.   *)
(* The inner capability is modelled as what its type promises, the removal *)
(* of the registration; it is enabled in every delivery state, which       *)
(* includes every schedule of a capability that would wait.                *)
(***************************************************************************)
MaxSubs == 2
MaxEvents == 3

SubIds == 1..MaxSubs
SubKinds == {"collection", "pubsub"}

NoSub ==
    [state |-> "none", kind |-> "collection", lateCall |-> FALSE,
     disconnected |-> FALSE, lateDisc |-> FALSE, cancels |-> 0]

SubInit ==
    /\ subs = [id \in SubIds |-> NoSub]
    /\ registry = {}
    /\ deliv = [pc |-> "idle", sub |-> 0, seen |-> FALSE, buffer |-> "none", calls |-> 0]
    /\ canc = [pc |-> "idle", sub |-> 0]
    /\ events = 0

\* bosbase_collection_subscribe / bosbase_pubsub_subscribe, success path:
\* the lambda is registered and a new handle owns the capability.
Subscribe(id, kind) ==
    /\ canc.pc = "idle"
    /\ subs[id].state = "none"
    /\ subs' = [subs EXCEPT ![id] = [NoSub EXCEPT !.state = "live", !.kind = kind]]
    /\ registry' = registry \cup {id}
    /\ UNCHANGED <<deliv, canc, events, subOthers>>

\* The delivery thread enters the lambda of a registered subscription for
\* an inbound event and serialises the event (dup_json).
DeliverBegin(id) ==
    /\ deliv.pc = "idle"
    /\ id \in registry
    /\ events < MaxEvents
    /\ deliv' = [pc |-> "dup", sub |-> id, seen |-> FALSE, buffer |-> "live", calls |-> 0]
    /\ events' = events + 1
    /\ UNCHANGED <<subs, registry, canc, subOthers>>

\* The lambda that frees the buffer before it calls the callback.
CallbackBegin_after_free ==
    /\ deliv.pc = "dup"
    /\ deliv' = [deliv EXCEPT !.pc = "callback", !.calls = @ + 1, !.buffer = "freed"]
    /\ subs' = [subs EXCEPT ![deliv.sub].lateCall =
                    @ \/ subs[deliv.sub].state = "freed",
                        ![deliv.sub].lateDisc =
                    @ \/ subs[deliv.sub].disconnected]
    /\ UNCHANGED <<registry, canc, events, subOthers>>

\* The lambda calls the caller's callback with the buffer and user_data.
CallbackBegin ==
    /\ deliv.pc = "dup"
    /\ deliv' = [deliv EXCEPT !.pc = "callback", !.calls = @ + 1]
    /\ subs' = [subs EXCEPT ![deliv.sub].lateCall =
                    @ \/ subs[deliv.sub].state = "freed",
                        ![deliv.sub].lateDisc =
                    @ \/ subs[deliv.sub].disconnected]
    /\ UNCHANGED <<registry, canc, events, subOthers>>

\* The callback returns to the lambda.
CallbackReturn ==
    /\ deliv.pc = "callback"
    /\ deliv' = [deliv EXCEPT !.pc = "free", !.seen = FALSE]
    /\ UNCHANGED <<subs, registry, canc, events, subOthers>>

\* The lambda frees the buffer (bosbase_free_string) and returns.
BufferFree ==
    /\ deliv.pc = "free"
    /\ deliv' = [pc |-> "idle", sub |-> 0, seen |-> FALSE,
                 buffer |-> IF deliv.buffer = "live" THEN "freed" ELSE "freed twice",
                 calls |-> deliv.calls]
    /\ UNCHANGED <<subs, registry, canc, events, subOthers>>

\* A caller thread enters bosbase_subscription_cancel(sub) with a live
\* handle: sub and sub->holder are non-null.  seen records that a callback
\* invocation of this subscription is in progress at this moment.
CancelBegin(id) ==
    /\ canc.pc = "idle"
    /\ subs[id].state = "live"
    /\ canc' = [pc |-> "inner", sub |-> id]
    /\ deliv' = [deliv EXCEPT !.seen = (deliv.pc = "callback" /\ deliv.sub = id)]
    /\ UNCHANGED <<subs, registry, events, subOthers>>

\* The capability that returns only once a delivery has taken place.
CancelInner_awaits_delivery ==
    /\ canc.pc = "inner"
    /\ events > 0
    /\ registry' = registry \ {canc.sub}
    /\ subs' = [subs EXCEPT ![canc.sub].cancels = @ + 1]
    /\ canc' = [canc EXCEPT !.pc = "delete"]
    /\ UNCHANGED <<deliv, events, subOthers>>

\* sub->holder->cancel(): the inner capability removes the registration;
\* cancels counts its invocations for the handle.
CancelInner ==
    /\ canc.pc = "inner"
    /\ registry' = registry \ {canc.sub}
    /\ subs' = [subs EXCEPT ![canc.sub].cancels = @ + 1]
    /\ canc' = [canc EXCEPT !.pc = "delete"]
    /\ UNCHANGED <<deliv, events, subOthers>>

\* delete sub; the call returns.
CancelReturn ==
    /\ canc.pc = "delete"
    /\ subs' = [subs EXCEPT ![canc.sub].state = "freed"]
    /\ canc' = [pc |-> "idle", sub |-> 0]
    /\ UNCHANGED <<registry, deliv, events, subOthers>>

\* bosbase_pubsub_disconnect(client) from a caller thread: the inner
\* disconnect drops every pubsub registration of the client, and the call
\* returns.  The subscription handles stay allocated.
Disconnect ==
    /\ \E id \in SubIds : subs[id].state = "live" /\ subs[id].kind = "pubsub"
    /\ registry' = {id \in registry : subs[id].kind # "pubsub"}
    /\ subs' = [id \in SubIds |->
                  IF subs[id].state # "none" /\ subs[id].kind = "pubsub"
                  THEN [subs[id] EXCEPT !.disconnected = TRUE]
                  ELSE subs[id]]
    /\ UNCHANGED <<deliv, canc, events, subOthers>>

SubNext ==
    \/ \E id \in SubIds, kind \in SubKinds : Subscribe(id, kind)
    \/ \E id \in SubIds : DeliverBegin(id)
    \/ CallbackBegin
    \/ CallbackReturn
    \/ BufferFree
    \/ \E id \in SubIds : CancelBegin(id)
    \/ CancelInner
    \/ CancelReturn
    \/ Disconnect

(***************************************************************************)
(* The auth store accessors and the strings they hand to the caller.       *)
(*                                                                         *)
(* bosbase_auth_token returns token().c_str(): a pointer into the string   *)
(* the store holds.  bosbase_auth_record returns a dup_json copy.  A       *)
(* pointer into the store is invalidated when the store's string is        *)
(* assigned or destroyed; reading it afterwards is undefined, so its       *)
(* content is then any of: what it was, the new token, or garbage.         *)
(***************************************************************************)
MaxCalls == 3
MaxHeld == 2

Garbage == "<garbage>"
Tokens == {"tok1", "tok2"}

AuthInit ==
    /\ store = [alive |-> TRUE, token |-> "", record |-> JNull]
    /\ held = <<>>
    /\ steps = 0

\* What a held string reads as after the token storage was written with
\* newToken, for one outcome of the undefined read.
ReadAfter(s, outcome, newToken) ==
    IF s.mem # "internal" \/ outcome = "same" THEN s.now
    ELSE IF outcome = "new" THEN newToken
    ELSE Garbage

Outcomes == {"same", "new", "garbage"}

\* The held strings after the token storage was written: heap copies are
\* untouched, pointers into the store read as one of the outcomes.
Invalidate(h, newToken) ==
    \E f \in [1..Len(held) -> Outcomes] :
        /\ \A i \in 1..Len(held) : held[i].mem # "internal" => f[i] = "same"
        /\ h = [i \in 1..Len(held) |->
                    [held[i] EXCEPT !.now = ReadAfter(held[i], f[i], newToken)]]

\* bosbase_auth_token(client) on a live client: the caller receives the
\* address of the store's token bytes.
AuthToken ==
    /\ store.alive
    /\ steps < MaxCalls
    /\ Len(held) < MaxHeld
    /\ held' = Append(held, [mem |-> "internal", orig |-> store.token, now |-> store.token])
    /\ steps' = steps + 1
    /\ UNCHANGED <<store, authOthers>>

\* bosbase_auth_record(client): a heap copy of the serialised record.
AuthRecord ==
    /\ store.alive
    /\ steps < MaxCalls
    /\ Len(held) < MaxHeld
    /\ held' = Append(held, [mem |-> dup_json(store.record).mem,
                             orig |-> dup_json(store.record).text,
                             now |-> dup_json(store.record).text])
    /\ steps' = steps + 1
    /\ UNCHANGED <<store, authOthers>>

\* bosbase_auth_save(client, token, record_json, out_error): wrap_void
\* around parse_json_or and authStore()->save.
AuthSave(token, record_json) ==
    /\ store.alive
    /\ steps < MaxCalls
    /\ steps' = steps + 1
    /\ LET data == parse_json_or(record_json)
           tok == IF token = Null THEN "" ELSE token
       IN  IF data.raised.kind # "none"
           THEN UNCHANGED <<store, held>>
           ELSE /\ store' = [store EXCEPT !.token = tok, !.record = data.val]
                /\ Invalidate(held', tok)
    /\ UNCHANGED <<authOthers>>

\* bosbase_auth_clear(client).
AuthClear ==
    /\ store.alive
    /\ steps < MaxCalls
    /\ steps' = steps + 1
    /\ store' = [store EXCEPT !.token = "", !.record = JNull]
    /\ Invalidate(held', "")
    /\ UNCHANGED <<authOthers>>

\* bosbase_client_free(client): the store and its token string are
\* destroyed.
ClientFree ==
    /\ store.alive
    /\ steps < MaxCalls
    /\ steps' = steps + 1
    /\ store' = [store EXCEPT !.alive = FALSE]
    /\ Invalidate(held', Garbage)
    /\ UNCHANGED <<authOthers>>

\* bosbase_free_string(str) on a heap string the caller holds.
FreeString(i) ==
    /\ i \in 1..Len(held)
    /\ held[i].mem = "heap"
    /\ held' = [j \in 1..(Len(held) - 1) |-> IF j < i THEN held[j] ELSE held[j + 1]]
    /\ UNCHANGED <<store, steps, authOthers>>

AuthNext ==
    \/ AuthToken
    \/ AuthRecord
    \/ \E token \in Tokens \cup {Null}, record_json \in {Null, TextObject, TextBad} :
          AuthSave(token, record_json)
    \/ AuthClear
    \/ ClientFree
    \/ \E i \in 1..MaxHeld : FreeString(i)

(***************************************************************************)
(* LifeSpec: the handle registry.  Client, batch and subscription handles  *)
(* are created and released by the caller's thread; the caller passes a    *)
(* null handle or a handle it has not released.  The inner constructors    *)
(* (BosBase, createBatch, subscribe) are inputs: they succeed or raise.    *)
(***************************************************************************)
MaxClients == 1
MaxBatches == 1
MaxLinks == 1

ClientIds == 1..MaxClients
BatchIds == 1..MaxBatches
LinkIds == 1..MaxLinks
NullHandle == 0

\* struct bosbase_batch: the owner pointer and the inner accumulator.  A
\* deleted wrapper leaves its slot free for a later allocation; a client
\* slot stays "freed" so that a pointer to it is known to dangle.
NoBatch == [state |-> "none", owner |-> NullHandle, impl |-> "unset"]

\* struct bosbase_subscription: the holder and its cancel capability.  The
\* capability is a closure of the inner service of the client the
\* subscription was registered on; owner names that client.
NoLink == [state |-> "none", owner |-> NullHandle, holder |-> "unset", cancel |-> "unset"]

\* struct bosbase_error as the caller holds it: the block and its three
\* strings, each "null", "live" or "freed".
NoErrorValue == [struct |-> "null", url |-> "null", message |-> "null", response |-> "null"]

Snapshot == <<clients, batches, links, heap>>

LifeInit ==
    /\ clients = [c \in ClientIds |-> "none"]
    /\ batches = [b \in BatchIds |-> NoBatch]
    /\ links = [s \in LinkIds |-> NoLink]
    /\ heap = [err |-> NoErrorValue, str |-> "null"]
    /\ last = [fn |-> "none", arg |-> NullHandle, ret |-> "none", pre |-> <<>>]

LiveClients == {c \in ClientIds : clients[c] = "live"}
LiveBatches == {b \in BatchIds : batches[b].state = "live"}
LiveLinks == {s \in LinkIds : links[s].state = "live"}

\* bosbase_client_new: the BosBase constructor runs outside any try block.
LifeClientNew(outcome) ==
    /\ \E c \in ClientIds : clients[c] = "none"
    /\ LET c == CHOOSE x \in ClientIds :
                    clients[x] = "none" /\ \A y \in ClientIds : clients[y] = "none" => x <= y
       IN  /\ clients' = IF outcome = "ok" THEN [clients EXCEPT ![c] = "live"] ELSE clients
           /\ last' = [fn |-> "client_new", arg |-> NullHandle,
                       ret |-> IF outcome = "ok" THEN "handle" ELSE "escaped",
                       pre |-> Snapshot]
    /\ UNCHANGED <<batches, links, heap, lifeOthers>>

\* bosbase_client_free: delete client.  Deleting a null pointer does
\* nothing; otherwise the wrapper and its BosBase go, and nothing else is
\* looked at.
LifeClientFree(c) ==
    /\ c = NullHandle \/ c \in LiveClients
    /\ clients' = IF c = NullHandle THEN clients ELSE [clients EXCEPT ![c] = "freed"]
    /\ last' = [fn |-> "client_free", arg |-> c, ret |-> "void", pre |-> Snapshot]
    /\ UNCHANGED <<batches, links, heap, lifeOthers>>

\* bosbase_batch_new: null for a null client; createBatch() runs outside
\* any try block and gives an accumulator, an empty pointer, or raises.
LifeBatchNew(c, outcome) ==
    /\ c = NullHandle \/ c \in LiveClients
    /\ \E b \in BatchIds : batches[b].state = "none"
    /\ LET b == CHOOSE x \in BatchIds :
                    batches[x].state = "none"
                    /\ \A y \in BatchIds : batches[y].state = "none" => x <= y
           made == c # NullHandle /\ outcome = "ok"
       IN  /\ batches' = IF made
                           THEN [batches EXCEPT ![b] =
                                    [state |-> "live", owner |-> c, impl |-> "set"]]
                           ELSE batches
           /\ last' = [fn |-> "batch_new", arg |-> c,
                       ret |-> IF made THEN "handle"
                               ELSE IF c # NullHandle /\ outcome = "throws" THEN "escaped"
                               ELSE "null",
                       pre |-> Snapshot]
    /\ UNCHANGED <<clients, links, heap, lifeOthers>>

\* bosbase_batch_free: delete batch.
LifeBatchFree(b) ==
    /\ b = NullHandle \/ b \in LiveBatches
    /\ batches' = IF b = NullHandle THEN batches
                  ELSE [batches EXCEPT ![b] = NoBatch]
    /\ last' = [fn |-> "batch_free", arg |-> b, ret |-> "void", pre |-> Snapshot]
    /\ UNCHANGED <<clients, links, heap, lifeOthers>>

\* bosbase_collection_subscribe and bosbase_pubsub_subscribe: null for a
\* null client or callback; the holder is made, the inner subscribe gives
\* the cancel capability or raises inside the try block, and only then is
\* the handle allocated.
LifeSubscribe(c, kind, hasCallback, outcome) ==
    /\ c = NullHandle \/ c \in LiveClients
    /\ \E s \in LinkIds : links[s].state = "none"
    /\ LET s == CHOOSE x \in LinkIds :
                    links[x].state = "none"
                    /\ \A y \in LinkIds : links[y].state = "none" => x <= y
           made == c # NullHandle /\ hasCallback /\ outcome = "ok"
       IN  /\ links' = IF made
                         THEN [links EXCEPT ![s] =
                                  [state |-> "live", owner |-> c,
                                   holder |-> "set", cancel |-> "set"]]
                         ELSE links
           /\ last' = [fn |-> "subscribe", arg |-> c,
                       ret |-> IF made THEN "handle" ELSE "null",
                       pre |-> Snapshot]
    /\ UNCHANGED <<clients, batches, heap, lifeOthers>>

\* bosbase_subscription_cancel: nothing for a null handle; otherwise the
\* capability is called (outside any try block) and the handle deleted.
LifeCancel(s, outcome) ==
    /\ s = NullHandle \/ s \in LiveLinks
    /\ links' = IF s = NullHandle \/ outcome = "throws" THEN links
                ELSE [links EXCEPT ![s] = NoLink]
    /\ last' = [fn |-> "subscription_cancel", arg |-> s,
                ret |-> IF s # NullHandle /\ outcome = "throws" THEN "escaped" ELSE "void",
                pre |-> Snapshot]
    /\ UNCHANGED <<clients, batches, heap, lifeOthers>>

\* The blocks of an Error Value as make_error leaves them: the struct and
\* one string per non-null field.
ErrorBlocks(err) ==
    [struct |-> "live",
     url |-> IF err.url = Null THEN "null" ELSE "live",
     message |-> IF err.message = Null THEN "null" ELSE "live",
     response |-> IF err.response = Null THEN "null" ELSE "live"]

\* std::free: a null pointer is left alone, a block is released.
std_free(block) == IF block = "live" THEN "freed" ELSE block

\* bosbase_free_error that releases the struct and none of its strings.
free_error_struct_only(err) ==
    IF err.struct = "null" THEN err
    ELSE [err EXCEPT !.struct = std_free(err.struct)]

\* bosbase_free_error on a non-null error: url, message and response go
\* through bosbase_free_string, then the struct is released.
free_error(err) ==
    IF err.struct = "null" THEN err
    ELSE [struct |-> std_free(err.struct), url |-> std_free(err.url),
          message |-> std_free(err.message), response |-> std_free(err.response)]

\* A failing call hands the caller an Error Value built by make_error.
LifeTakeError(sig) ==
    /\ heap.err.struct # "live"
    /\ heap' = [heap EXCEPT !.err =
                   ErrorBlocks(IF sig.kind = "transport" THEN make_error_ex(sig)
                               ELSE make_error(sig.what))]
    /\ last' = [fn |-> "take_error", arg |-> NullHandle, ret |-> "void", pre |-> Snapshot]
    /\ UNCHANGED <<clients, batches, links, lifeOthers>>

\* A call hands the caller a Boundary String built by dup_string.
LifeTakeString ==
    /\ heap.str # "live"
    /\ heap' = [heap EXCEPT !.str = IF dup_string("x").mem = "heap" THEN "live" ELSE "null"]
    /\ last' = [fn |-> "take_string", arg |-> NullHandle, ret |-> "void", pre |-> Snapshot]
    /\ UNCHANGED <<clients, batches, links, lifeOthers>>

\* bosbase_free_string(str), with str null or the string the caller holds.
LifeFreeString(isNull) ==
    /\ isNull \/ heap.str = "live"
    /\ heap' = [heap EXCEPT !.str = IF isNull THEN @ ELSE std_free(@)]
    /\ last' = [fn |-> "free_string", arg |-> IF isNull THEN NullHandle ELSE 1,
                ret |-> "void", pre |-> Snapshot]
    /\ UNCHANGED <<clients, batches, links, lifeOthers>>

\* bosbase_free_error(err), with err null or the error the caller holds.
LifeFreeError(isNull) ==
    /\ isNull \/ heap.err.struct = "live"
    /\ heap' = [heap EXCEPT !.err = IF isNull THEN @ ELSE free_error(@)]
    /\ last' = [fn |-> "free_error", arg |-> IF isNull THEN NullHandle ELSE 1,
                ret |-> "void", pre |-> Snapshot]
    /\ UNCHANGED <<clients, batches, links, lifeOthers>>

LifeNext ==
    \/ \E outcome \in {"ok", "throws"} : LifeClientNew(outcome)
    \/ \E c \in ClientIds \cup {NullHandle} : LifeClientFree(c)
    \/ \E c \in ClientIds \cup {NullHandle}, outcome \in {"ok", "empty", "throws"} :
          LifeBatchNew(c, outcome)
    \/ \E b \in BatchIds \cup {NullHandle} : LifeBatchFree(b)
    \/ \E c \in ClientIds \cup {NullHandle}, kind \in {"record", "pubsub"},
          hasCallback \in BOOLEAN, outcome \in {"ok", "transport", "generic"} :
          LifeSubscribe(c, kind, hasCallback, outcome)
    \/ \E s \in LinkIds \cup {NullHandle}, outcome \in {"ok", "throws"} :
          LifeCancel(s, outcome)
    \/ \E sig \in Signals : LifeTakeError(sig)
    \/ LifeTakeString
    \/ \E isNull \in BOOLEAN : LifeFreeString(isNull)
    \/ \E isNull \in BOOLEAN : LifeFreeError(isNull)

(***************************************************************************)
(* BatchSpec: one batch builder and the calls that take file attachments.  *)
(* The inner BatchService is not part of the sources: its accumulator is   *)
(* modelled from the specification (appends are buffered, send is one      *)
(* outbound request carrying the buffer, destruction sends nothing).  The  *)
(* remote log starts empty when the batch is opened; the model follows a   *)
(* batch up to its first send.                                             *)
(***************************************************************************)
MaxOps == 2

\* The caller's attachment buffer holds Bytes until the caller reuses it.
Bytes == <<1, 2>>
Scribbled == <<9, 9>>

\* bosbase_file_attachment arrays the caller passes: none, one entry with
\* no data, one entry pointing at the caller's buffer.
NoFiles == <<>>
BufferFile == <<[data |-> "buf", data_len |-> 2]>>
FileInputs == {NoFiles, <<[data |-> "null", data_len |-> 0]>>, BufferFile}

\* Calls that stop before the accumulator: a null handle, a body that does
\* not parse, a query that is not an object.
StoppedInputs == {<<TRUE, TextObject, Null>>, <<FALSE, TextBad, Null>>, <<FALSE, TextObject, TextArray>>}

\* convert_files that keeps the caller's pointer instead of copying.
convert_files_keeps_pointer(files, memory) ==
    [i \in 1..Len(files) |->
        IF files[i].data # "null" /\ files[i].data_len > 0
        THEN [ref |-> "caller", data |-> SubSeq(memory, 1, files[i].data_len)]
        ELSE [ref |-> "own", data |-> <<>>]]

\* convert_files: one FileAttachment per entry, the bytes copied with
\* data.assign when data is non-null and data_len is positive.
convert_files(files, memory) ==
    [i \in 1..Len(files) |->
        IF files[i].data # "null" /\ files[i].data_len > 0
        THEN [ref |-> "own", data |-> SubSeq(memory, 1, files[i].data_len)]
        ELSE [ref |-> "own", data |-> <<>>]]

\* What the caller handed over, as the bytes it could read at call time.
Given(files, memory) ==
    [i \in 1..Len(files) |->
        IF files[i].data # "null" THEN SubSeq(memory, 1, files[i].data_len) ELSE <<>>]

\* What an attachment yields when the inner library reads it.
ReadAttachment(att) ==
    IF att.ref = "caller" THEN SubSeq(buf, 1, Len(att.data)) ELSE att.data

AppendKinds == {"create", "upsert", "update", "delete"}

\* bosbase_batch_collection_upsert forwarded to create.
InnerMethod_upsert_as_create(kind) ==
    CASE kind = "create" -> "create"
      [] kind = "upsert" -> "create"
      [] kind = "update" -> "update"
      [] kind = "delete" -> "remove"

\* The accumulator method each append entry point calls.
InnerMethod(kind) ==
    CASE kind = "create" -> "create"
      [] kind = "upsert" -> "upsert"
      [] kind = "update" -> "update"
      [] kind = "delete" -> "remove"

\* Inner accumulator: an append buffers the operation and sends nothing.
InnerAppend(acc, method, attachments) == Append(acc, [method |-> method, att |-> attachments])

\* Inner accumulator: send is one outbound request carrying the buffer.
InnerSend(acc) == <<[ops |-> acc]>>

NoBat == [state |-> "none", ops |-> <<>>, asked |-> <<>>, sent |-> FALSE]

NoDone ==
    [fn |-> "none", ret |-> "none", given |-> <<>>, inner |-> <<>>,
     onNull |-> FALSE, hadOps |-> 0, wasSent |-> FALSE]

BatchInit ==
    /\ bat = NoBat
    /\ remote = <<>>
    /\ buf = Bytes
    /\ done = NoDone

\* bosbase_batch_new on a live client whose createBatch() succeeds.
BatchNew ==
    /\ bat.state = "none"
    /\ bat' = [NoBat EXCEPT !.state = "live"]
    /\ remote' = <<>>
    /\ done' = [NoDone EXCEPT !.fn = "batch_new", !.ret = "handle"]
    /\ UNCHANGED <<buf, batchOthers>>

\* The append that hands the operation to the accumulator as soon as the
\* body has parsed, before the query is looked at.
BatchAppend_buffers_before_query(isNull, kind, doc, query, files, inner) ==
    /\ isNull \/ (bat.state = "live" /\ ~bat.sent /\ Len(bat.ops) < MaxOps)
    /\ kind = "delete" => files = NoFiles
    /\ (\E i \in 1..Len(files) : files[i].data = "buf") => buf = Bytes
    /\ LET body == parse_json_or(doc)
           q == parse_query(query)
           attachments == IF kind = "delete" THEN <<>> ELSE convert_files(files, buf)
           pushed == ~isNull /\ body.raised.kind = "none" /\ inner = "ok"
           ok == pushed /\ q.raised.kind = "none"
       IN  /\ bat' = IF pushed
                       THEN [bat EXCEPT
                               !.ops = InnerAppend(@, InnerMethod(kind), attachments),
                               !.asked = Append(@, [kind |-> kind, given |-> Given(files, buf)])]
                       ELSE bat
           /\ done' = [NoDone EXCEPT !.fn = "append", !.ret = IF ok THEN "0" ELSE "-1",
                                     !.given = Given(files, buf), !.onNull = isNull,
                                     !.hadOps = IF isNull THEN 0 ELSE Len(bat.ops)]
    /\ UNCHANGED <<remote, buf, batchOthers>>

\* bosbase_batch_collection_create / upsert / update / delete: body and
\* query are parsed, the files converted (not for delete), and the
\* accumulator method called; any failure gives -1 and appends nothing.
BatchAppend(isNull, kind, doc, query, files, inner) ==
    /\ isNull \/ (bat.state = "live" /\ ~bat.sent /\ Len(bat.ops) < MaxOps)
    /\ kind = "delete" => files = NoFiles
    /\ (\E i \in 1..Len(files) : files[i].data = "buf") => buf = Bytes
    /\ LET body == parse_json_or(doc)
           q == parse_query(query)
           attachments == IF kind = "delete" THEN <<>> ELSE convert_files(files, buf)
           ok == /\ ~isNull
                 /\ body.raised.kind = "none"
                 /\ q.raised.kind = "none"
                 /\ inner = "ok"
       IN  /\ bat' = IF ok
                       THEN [bat EXCEPT
                               !.ops = InnerAppend(@, InnerMethod(kind), attachments),
                               !.asked = Append(@, [kind |-> kind, given |-> Given(files, buf)])]
                       ELSE bat
           /\ done' = [NoDone EXCEPT !.fn = "append", !.ret = IF ok THEN "0" ELSE "-1",
                                     !.given = Given(files, buf), !.onNull = isNull,
                                     !.hadOps = IF isNull THEN 0 ELSE Len(bat.ops)]
    /\ UNCHANGED <<remote, buf, batchOthers>>

\* bosbase_batch_send: body, query and headers are parsed, then the
\* accumulator's send runs under wrap_json.
BatchSend(isNull, doc, query, inner) ==
    /\ isNull \/ (bat.state = "live" /\ ~bat.sent)
    /\ LET body == parse_json_or(doc)
           q == parse_query(query)
           reached == ~isNull /\ body.raised.kind = "none" /\ q.raised.kind = "none"
       IN  /\ remote' = IF reached THEN remote \o InnerSend(bat.ops) ELSE remote
           /\ bat' = IF reached THEN [bat EXCEPT !.sent = TRUE] ELSE bat
           /\ done' = [NoDone EXCEPT !.fn = "batch_send", !.onNull = isNull,
                                     !.ret = IF reached /\ inner = "ok" THEN "0" ELSE "-1",
                                     !.hadOps = IF isNull THEN 0 ELSE Len(bat.ops),
                                     !.wasSent = reached]
    /\ UNCHANGED <<buf, batchOthers>>

\* bosbase_batch_free that commits the buffer before deleting.
BatchFree_autocommit(isNull) ==
    /\ isNull \/ bat.state = "live"
    /\ bat' = IF isNull THEN bat ELSE NoBat
    /\ remote' = IF isNull \/ bat.sent THEN remote ELSE remote \o InnerSend(bat.ops)
    /\ done' = [NoDone EXCEPT !.fn = "batch_free", !.ret = "void", !.onNull = isNull,
                              !.hadOps = IF isNull THEN 0 ELSE Len(bat.ops),
                              !.wasSent = ~isNull /\ bat.sent]
    /\ UNCHANGED <<buf, batchOthers>>

\* bosbase_batch_free: delete batch; the accumulator goes with the wrapper.
BatchFree(isNull) ==
    /\ isNull \/ bat.state = "live"
    /\ bat' = IF isNull THEN bat ELSE NoBat
    /\ remote' = remote
    /\ done' = [NoDone EXCEPT !.fn = "batch_free", !.ret = "void", !.onNull = isNull,
                              !.hadOps = IF isNull THEN 0 ELSE Len(bat.ops),
                              !.wasSent = ~isNull /\ bat.sent]
    /\ UNCHANGED <<buf, batchOthers>>

UploadFns == {"send", "collection_create", "collection_update", "backup_upload"}

\* bosbase_send, bosbase_collection_create, bosbase_collection_update and
\* bosbase_backup_upload: the files are converted and handed to the inner
\* operation, which has returned when the call returns.  bosbase_backup_upload
\* takes one entry and raises when there is none.
Upload(fn, files, inner) ==
    /\ (\E i \in 1..Len(files) : files[i].data = "buf") => buf = Bytes
    /\ LET attachments == convert_files(files, buf)
           reached == ~(fn = "backup_upload" /\ attachments = <<>>)
       IN  done' = [NoDone EXCEPT !.fn = fn,
                                  !.ret = IF reached /\ inner = "ok" THEN "0" ELSE "-1",
                                  !.given = Given(files, buf),
                                  !.inner = IF reached THEN attachments ELSE <<>>]
    /\ UNCHANGED <<bat, remote, buf, batchOthers>>

\* The caller reuses its attachment buffer after a call has returned, or
\* fills it again.
CallerReuse ==
    /\ buf' = IF buf = Bytes THEN Scribbled ELSE Bytes
    /\ UNCHANGED <<bat, remote, done, batchOthers>>

BatchNext ==
    \/ BatchNew
    \/ \E kind \in AppendKinds, files \in {NoFiles, BufferFile}, inner \in {"ok", "raises"} :
          BatchAppend(FALSE, kind, TextObject, Null, files, inner)
    \/ \E in \in StoppedInputs : BatchAppend(in[1], "create", in[2], in[3], NoFiles, "ok")
    \/ \E inner \in {"ok", "raises"} : BatchSend(FALSE, Null, Null, inner)
    \/ \E in \in StoppedInputs : BatchSend(in[1], in[2], in[3], "ok")
    \/ \E isNull \in BOOLEAN : BatchFree(isNull)
    \/ \E fn \in UploadFns, files \in FileInputs, inner \in {"ok", "raises"} :
          Upload(fn, files, inner)
    \/ CallerReuse

(***************************************************************************)
(* ConcSpec: two caller threads on one client handle, one writing the auth *)
(* state and one reading it.  The inner AuthStore is not part of the       *)
(* sources; it is modelled with the internal lock the specification asks   *)
(* for: save and clear hold it while they write token and record, and      *)
(* token(), record() and a request reading the auth state take it for the  *)
(* read.  The boundary adds no lock of its own.                            *)
(***************************************************************************)
InitialPair == <<"", JNull>>

ConcInit ==
    /\ thr = [lock |-> "free", wpc |-> "idle", pending |-> InitialPair, wret |-> "none",
              saved |-> InitialPair, rpc |-> "idle", got |-> Null]
    /\ seenPair = [seen |-> InitialPair, saved |-> InitialPair]

\* bosbase_auth_save up to the call of authStore()->save: the record is
\* parsed under wrap_void; a document that does not parse gives -1.
ConcSaveBegin(token, record_json) ==
    /\ thr.wpc = "idle" /\ thr.lock = "free"
    /\ LET data == parse_json_or(record_json)
       IN  thr' = IF data.raised.kind # "none"
                  THEN [thr EXCEPT !.wret = "-1"]
                  ELSE [thr EXCEPT !.lock = "writer", !.wpc = "token", !.wret = "0",
                                   !.pending = <<IF token = Null THEN "" ELSE token, data.val>>]
    /\ UNCHANGED <<store, seenPair, concOthers>>

\* bosbase_auth_clear up to the call of authStore()->clear.
ConcClearBegin ==
    /\ thr.wpc = "idle" /\ thr.lock = "free"
    /\ thr' = [thr EXCEPT !.lock = "writer", !.wpc = "token", !.wret = "void",
                          !.pending = InitialPair]
    /\ UNCHANGED <<store, seenPair, concOthers>>

\* Inner save/clear: the token storage is rewritten.
ConcWriteToken ==
    /\ thr.wpc = "token"
    /\ store' = [store EXCEPT !.token = thr.pending[1]]
    /\ thr' = [thr EXCEPT !.wpc = "record"]
    /\ UNCHANGED <<seenPair, concOthers>>

\* Inner save/clear: the record is rewritten and the lock released.
ConcWriteRecord ==
    /\ thr.wpc = "record"
    /\ store' = [store EXCEPT !.record = thr.pending[2]]
    /\ thr' = [thr EXCEPT !.wpc = "idle", !.lock = "free", !.saved = thr.pending]
    /\ UNCHANGED <<seenPair, concOthers>>

\* bosbase_auth_token: token() is called and the address of its bytes is
\* returned to the caller.
ConcAuthToken ==
    /\ thr.rpc = "idle" /\ thr.lock = "free"
    /\ thr' = [thr EXCEPT !.rpc = "holding"]
    /\ UNCHANGED <<store, seenPair, concOthers>>

\* The caller starts reading the bytes bosbase_auth_token returned.
ConcDerefBegin ==
    /\ thr.rpc = "holding"
    /\ thr' = [thr EXCEPT !.rpc = "reading"]
    /\ UNCHANGED <<store, seenPair, concOthers>>

\* The caller has read the bytes.
ConcDerefEnd ==
    /\ thr.rpc = "reading"
    /\ thr' = [thr EXCEPT !.rpc = "idle", !.got = store.token]
    /\ UNCHANGED <<store, seenPair, concOthers>>

\* bosbase_auth_record: record() is serialised into a heap copy.
ConcAuthRecord ==
    /\ thr.rpc = "idle" /\ thr.lock = "free"
    /\ thr' = [thr EXCEPT !.got = dup_json(store.record).text]
    /\ UNCHANGED <<store, seenPair, concOthers>>

\* A request of the reading thread takes token and record from the store.
ConcRequest ==
    /\ thr.rpc = "idle" /\ thr.lock = "free"
    /\ seenPair' = [seen |-> <<store.token, store.record>>, saved |-> thr.saved]
    /\ UNCHANGED <<store, thr, concOthers>>

ConcNext ==
    \/ \E token \in Tokens \cup {Null}, record_json \in {Null, TextObject, TextBad} :
          ConcSaveBegin(token, record_json)
    \/ ConcClearBegin
    \/ ConcWriteToken
    \/ ConcWriteRecord
    \/ ConcAuthToken
    \/ ConcDerefBegin
    \/ ConcDerefEnd
    \/ ConcAuthRecord
    \/ ConcRequest

(***************************************************************************)
(* ReqSpec: what an entry point hands to the inner library for its numeric *)
(* and optional string parameters.  Each action is one call with valid     *)
(* handle and well-formed bags; req records the parameters and the inner   *)
(* request composed from them.                                             *)
(***************************************************************************)
Ttls == {-60, -1, 0, 1, 60}
Pages == {-1, 0, 1, 2}
PerPages == {-5, 0, 1, 10}

\* Query bags the caller passes along with page and per_page (parsed).
QueryBags == {[k \in {} |-> 0], [k \in {"skipTotal"} |-> 1]}

\* std::optional<int> and std::optional<std::string>.
NoInt == [has |-> FALSE, v |-> 0]
SomeInt(n) == [has |-> TRUE, v |-> n]
Absent == [has |-> FALSE, v |-> ""]
Present(text) == [has |-> TRUE, v |-> text]

\* The ttl test with 0 taken as "omit".
ttl_of_positive_only(ttl_seconds) ==
    IF ttl_seconds > 0 THEN SomeInt(ttl_seconds) ELSE NoInt

\* std::optional<int> ttl; if (ttl_seconds >= 0) ttl = ttl_seconds;
ttl_of(ttl_seconds) ==
    IF ttl_seconds >= 0 THEN SomeInt(ttl_seconds) ELSE NoInt

\* query[key] = value
Put(query, key, value) ==
    [k \in DOMAIN query \cup {key} |-> IF k = key THEN value ELSE query[k]]

\* The paging test with 0 taken as a value to send.
set_paging_from_zero(query, page, per_page) ==
    LET q1 == IF page >= 0 THEN Put(query, "page", page) ELSE query
    IN  IF per_page >= 0 THEN Put(q1, "perPage", per_page) ELSE q1

\* bosbase_vector_list and bosbase_llm_list:
\* if (page > 0) query["page"] = page; if (per_page > 0) query["perPage"] = per_page;
set_paging(query, page, per_page) ==
    LET q1 == IF page > 0 THEN Put(query, "page", page) ELSE query
    IN  IF per_page > 0 THEN Put(q1, "perPage", per_page) ELSE q1

\* Inner getList of the record and log services: the outbound query from
\* the page and perPage arguments it is given.
InnerGetListQuery(query, page, per_page) ==
    LET q1 == IF page > 0 THEN Put(query, "page", page) ELSE query
    IN  IF per_page > 0 THEN Put(q1, "perPage", per_page) ELSE q1

ListFns == {"collection_get_list", "logs_get_list", "vector_list", "llm_list"}

\* The outbound query of a list call: vector_list and llm_list compose it
\* themselves, collection_get_list and logs_get_list pass page and per_page
\* on to getList unchanged.
OutboundQuery(fn, query, page, per_page) ==
    IF fn \in {"vector_list", "llm_list"}
    THEN set_paging(query, page, per_page)
    ELSE InnerGetListQuery(query, page, per_page)

\* x && *x ? std::optional<std::string>(x) : std::nullopt
optional_string(text) ==
    IF text # Null /\ text # "" THEN Present(text) ELSE Absent

\* x && *x ? x : default
defaulted(text, default) ==
    IF text # Null /\ text # "" THEN Present(text) ELSE Present(default)

\* x ? x : default
null_defaulted(text, default) ==
    IF text # Null THEN Present(text) ELSE Present(default)

\* The optional string parameters, each with the way its entry point
\* passes it on.
StringParam(fn, param, rule, default) ==
    [fn |-> fn, param |-> param, rule |-> rule, default |-> default]

StringParams ==
    {StringParam("collection_get_list", p, "optional", "") :
        p \in {"filter", "sort", "expand", "fields"}}
    \cup {StringParam("files_get_url", p, "optional", "") : p \in {"thumb", "token"}}
    \cup {StringParam("send", "method", "defaulted", "GET"),
          StringParam("send", "path", "null_defaulted", "/"),
          StringParam("settings_test_s3", "filesystem", "defaulted", "storage"),
          StringParam("collection_subscribe", "topic", "null_defaulted", "*"),
          StringParam("pubsub_subscribe", "topic", "null_defaulted", "")}

StringTexts == {Null, "", "x"}

ComposeString(sp, text) ==
    CASE sp.rule = "optional" -> optional_string(text)
      [] sp.rule = "defaulted" -> defaulted(text, sp.default)
      [] sp.rule = "null_defaulted" -> null_defaulted(text, sp.default)

NoParam == StringParam("none", "none", "none", "")

NoReq ==
    [fn |-> "none", ttl_seconds |-> 0, page |-> 0, per_page |-> 0, bag |-> [k \in {} |-> 0],
     sp |-> NoParam, text |-> Null,
     ttl |-> NoInt, query |-> [k \in {} |-> 0], arg |-> Absent,
     headers |-> Returned(EmptyObject)]

ReqInit == req = NoReq

\* bosbase_cache_set_entry and bosbase_cache_renew_entry.
CacheEntry(fn, ttl_seconds) ==
    /\ req' = [NoReq EXCEPT !.fn = fn, !.ttl_seconds = ttl_seconds,
                            !.ttl = ttl_of(ttl_seconds)]
    /\ UNCHANGED reqOthers

\* bosbase_collection_get_list, bosbase_logs_get_list, bosbase_vector_list
\* and bosbase_llm_list.
ListCall(fn, bag, page, per_page) ==
    /\ req' = [NoReq EXCEPT !.fn = fn, !.page = page, !.per_page = per_page, !.bag = bag,
                            !.query = OutboundQuery(fn, bag, page, per_page)]
    /\ UNCHANGED reqOthers

\* An entry point called with one of its optional string parameters null,
\* empty or set.
StringCall(sp, text) ==
    /\ req' = [NoReq EXCEPT !.fn = sp.fn, !.sp = sp, !.text = text,
                            !.arg = ComposeString(sp, text)]
    /\ UNCHANGED reqOthers

\* An entry point marshals its headers_json parameter.
HeaderCall(text) ==
    /\ req' = [NoReq EXCEPT !.fn = "headers", !.text = text, !.headers = parse_headers(text)]
    /\ UNCHANGED reqOthers

ReqNext ==
    \/ \E fn \in {"cache_set_entry", "cache_renew_entry"}, ttl_seconds \in Ttls :
          CacheEntry(fn, ttl_seconds)
    \/ \E fn \in ListFns, bag \in QueryBags, page \in Pages, per_page \in PerPages :
          ListCall(fn, bag, page, per_page)
    \/ \E sp \in StringParams, text \in StringTexts : StringCall(sp, text)
    \/ \E text \in HeaderTexts : HeaderCall(text)


(***************************************************************************)
(* Specifications.  Each one starts the other parts in their initial state *)
(* and leaves them unchanged.                                              *)
(***************************************************************************)
Init == CallInit /\ SubInit /\ AuthInit /\ LifeInit /\ BatchInit /\ ConcInit /\ ReqInit

Next == Invoke \/ Proceed

Spec == Init /\ [][Next]_vars

SubSpec == Init /\ [][SubNext]_vars

\* The bridge with its threads scheduled: a thread inside
\* bosbase_subscription_cancel runs on to its return, and the delivery thread
\* runs the lambda to its end, the callback returning included.
SubFairSpec ==
    /\ Init /\ [][SubNext]_vars
    /\ WF_vars(CancelInner) /\ WF_vars(CancelReturn)
    /\ WF_vars(CallbackBegin) /\ WF_vars(CallbackReturn) /\ WF_vars(BufferFree)

AuthSpec == Init /\ [][AuthNext]_vars

LifeSpec == Init /\ [][LifeNext]_vars

BatchSpec == Init /\ [][BatchNext]_vars

(***************************************************************************)
(* FrameSpec: calls that stop at parameter marshaling, on a batch handle   *)
(* and on the auth store of a client.  The batch actions are those of      *)
(* BatchSpec; bosbase_auth_save is taken with its return value.            *)
(***************************************************************************)

\* Body and query texts an append is given when one of them is malformed:
\* a body that does not parse, a query that does not parse, a query that is
\* not an object.
MalformedInputs ==
    {<<TextBad, Null>>, <<TextObject, TextBad>>, <<TextObject, TextArray>>}

\* bosbase_auth_save(client, token, record_json, out_error) on a live
\* client: wrap_void around parse_json_or and authStore()->save.
AuthSaveCall(token, record_json) ==
    /\ store.alive
    /\ LET data == parse_json_or(record_json)
           tok == IF token = Null THEN "" ELSE token
       IN  /\ store' = IF data.raised.kind # "none" THEN store
                         ELSE [store EXCEPT !.token = tok, !.record = data.val]
           /\ done' = [NoDone EXCEPT
                         !.fn = "auth_save",
                         !.ret = IF data.raised.kind # "none" THEN "-1" ELSE "0"]
    /\ UNCHANGED <<bat, remote, buf, held, steps,
                   callVars, subVars, lifeVars, concVars, reqVars>>

FrameNext ==
    \/ BatchNew
    \/ \E kind \in AppendKinds, files \in {NoFiles, BufferFile} :
          BatchAppend(FALSE, kind, TextObject, Null, files, "ok")
    \/ \E kind \in AppendKinds, in \in MalformedInputs :
          BatchAppend(FALSE, kind, in[1], in[2], NoFiles, "ok")
    \/ BatchSend(FALSE, Null, Null, "ok")
    \/ BatchFree(FALSE)
    \/ \E token \in Tokens \cup {Null}, record_json \in {Null, TextObject, TextBad} :
          AuthSaveCall(token, record_json)

FrameSpec == Init /\ [][FrameNext]_vars

ConcSpec == Init /\ [][ConcNext]_vars

ReqSpec == Init /\ [][ReqNext]_vars

(***************************************************************************)
(* Properties.                                                             *)
(***************************************************************************)
HasErrorOut(ep) == ep.ret \in {"int", "sub"}
HasValueOut(ep) == ep.out \in {"json", "url", "string"}
Failed(res) == res.ret \in {"-1", "null"}

\* Text that is present and is not a JSON object.
Malformed == {TextArray, TextScalar, TextBad}

\* C1: once bosbase_subscription_cancel(sub) has returned, the callback of
\* sub is never invoked again, for both subscription kinds and in every
\* interleaving with the delivery thread.
C1_NoCallbackAfterCancel ==
    \A id \in SubIds : ~subs[id].lateCall

\* C2: a callback invocation that is in progress when cancel is called has
\* finished before cancel returns and the handle is freed.
C2_CancelJoinsCallback ==
    ~(deliv.pc = "callback" /\ deliv.seen /\ subs[deliv.sub].state = "freed")

\* C3: for every value-returning entry point, a call that returns 0 does
\* not write *out_error and a call that does not return 0 does not write
\* the value out-parameter.
C3_OutParamsExclusive ==
    (call.made /\ HasValueOut(call.ep)) =>
        /\ call.res.ret = "0" => ~call.res.err.written
        /\ call.res.ret # "0" => ~call.res.val.written

C3_Witness ==
    /\ call.made
    /\ HasValueOut(call.ep)
    /\ call.in.outVal /\ call.in.outErr
    /\ call.in.failAt = "op"
    /\ call.res.ret = "-1"
    /\ call.res.err.written

\* C4: no exported entry point lets a failure signal of the inner
\* operation escape to the caller.
C4_NoFailureEscapes ==
    call.made => ~call.res.escaped

\* C5: in every entry point with an error out-parameter, a transport
\* failure (status, url, abort, response) raised anywhere in the call makes
\* it fail with an Error Value carrying status, abort flag, url, and the
\* serialised response as both message and response.
C5_TransportErrorTranslated ==
    (call.made /\ HasErrorOut(call.ep) /\ call.raised.kind = "transport") =>
        /\ Failed(call.res)
        /\ call.in.outErr =>
              /\ call.res.err.written
              /\ call.res.err.v =
                    [status |-> call.raised.status,
                     is_abort |-> IF call.raised.abort THEN 1 ELSE 0,
                     url |-> call.raised.url,
                     message |-> dump(call.raised.response),
                     response |-> dump(call.raised.response)]

\* C6: an Error Value produced for a failure that is not a transport
\* failure has status -1, is_abort 0, no url, no response, and the
\* failure's description as message.
C6_GenericErrorShape ==
    (call.made /\ call.res.err.written /\ call.raised.kind = "generic") =>
        call.res.err.v =
            [status |-> -1, is_abort |-> 0, url |-> Null,
             message |-> call.raised.what, response |-> Null]

C6_Witness ==
    /\ call.made
    /\ call.in.query = TextArray
    /\ call.res.err.written
    /\ call.res.err.v.message = "query_json must be an object"

\* C7: in a call that passes the entry check (valid handle and, for the
\* subscribe functions, a callback), query or header text that is present
\* and is not a JSON object makes the call fail with a local parameter
\* error (status -1, no abort, no url, no response) and no inner operation
\* runs.
C7_MalformedBagRejected ==
    (/\ call.made
     /\ ~HandleRejected(call.ep, call.in)
     /\ \/ Accepts(call.ep, "query") /\ call.in.query \in Malformed
        \/ Accepts(call.ep, "headers") /\ call.in.hdr \in Malformed) =>
        /\ Failed(call.res)
        /\ ~call.res.escaped
        /\ call.res.inner = 0
        /\ call.in.outErr =>
              /\ call.res.err.written
              /\ call.res.err.v.status = -1
              /\ call.res.err.v.is_abort = 0
              /\ call.res.err.v.url = Null
              /\ call.res.err.v.response = Null

C7_Witness ==
    /\ call.made
    /\ call.ep = bosbase_send
    /\ call.in.handle = "valid"
    /\ call.in.doc = TextObject
    /\ call.in.query = Null
    /\ call.in.hdr = TextScalar
    /\ call.in.failAt = "none"
    /\ call.res.ret = "-1"
    /\ call.res.inner = 0
    /\ call.res.err.written

\* C8: whenever a call returns a failure indication (non-zero status or a
\* null subscription) and out_error is non-null, *out_error has been set.
C8_FailurePopulatesError ==
    (call.made /\ HasErrorOut(call.ep) /\ Failed(call.res) /\ call.in.outErr) =>
        call.res.err.written

\* C9 as stated: a call with a null handle invokes no inner operation and
\* returns non-zero (int), null (handle- and string-returning) or nothing
\* (void).
C9_NullHandleFails ==
    (call.made /\ call.ep.handle # "none" /\ call.in.handle = "null") =>
        /\ call.res.inner = 0
        /\ ~call.res.escaped
        /\ call.res.ret =
              CASE call.ep.ret = "int" -> "-1"
                [] call.ep.ret \in {"sub", "batch", "client", "str", "cstr"} -> "null"
                [] OTHER -> "void"

\* C9 amended: as C9, except that bosbase_auth_token returns the empty
\* string literal, not null.
C9_NullHandleFailsOrEmpty ==
    (call.made /\ call.ep.handle # "none" /\ call.in.handle = "null") =>
        /\ call.res.inner = 0
        /\ ~call.res.escaped
        /\ call.res.ret =
              CASE call.ep.ret = "int" -> "-1"
                [] call.ep.ret \in {"sub", "batch", "client", "str"} -> "null"
                [] call.ep.ret = "cstr" -> "empty"
                [] OTHER -> "void"
        /\ call.ep.ret = "cstr" => call.res.str = [mem |-> "static", text |-> ""]

C9_Witness ==
    /\ call.made
    /\ call.ep = bosbase_auth_token
    /\ call.in.handle = "null"
    /\ call.res.ret = "empty"

\* C10: a string obtained from any entry point, bosbase_auth_token
\* included, reads unchanged after any later bosbase_auth_save,
\* bosbase_auth_clear or bosbase_client_free, until the caller releases it.
C10_StringsStayValid ==
    \A i \in 1..Len(held) : held[i].now = held[i].orig

\* C11: no handle outlives the session it depends on: in every state
\* reachable by creating and releasing clients, batches and subscriptions,
\* every live batch handle and every live subscription handle refers to a
\* client handle that is still live.
C11_HandlesWithinSession ==
    /\ \A b \in LiveBatches : batches[b].owner \in LiveClients
    /\ \A s \in LiveLinks : links[s].owner \in LiveClients

ReleaseFns == {"free_string", "free_error", "client_free", "batch_free", "subscription_cancel"}

\* C15: bosbase_free_string, bosbase_free_error, bosbase_client_free,
\* bosbase_batch_free and bosbase_subscription_cancel called with null
\* change no state and free nothing; bosbase_free_error on an error whose url
\* or response is null releases exactly the non-null fields and the struct.
C15_NullReleaseIsNoOp ==
    /\ (last.fn \in ReleaseFns /\ last.arg = NullHandle)
          => (Snapshot = last.pre /\ last.ret = "void")
    /\ (last.fn = "free_error" /\ last.arg # NullHandle)
          => /\ heap.err.struct = "freed"
             /\ \A f \in {"url", "message", "response"} :
                   heap.err[f] = IF last.pre[4].err[f] = "null" THEN "null" ELSE "freed"
             /\ heap.str = last.pre[4].str
             /\ <<clients, batches, links>> = <<last.pre[1], last.pre[2], last.pre[3]>>

\* A null release follows the release of an Error Value whose url and
\* response were null.
C15_Witness ==
    /\ last.fn \in ReleaseFns /\ last.arg = NullHandle
    /\ heap.err = [struct |-> "freed", url |-> "null", message |-> "freed",
                   response |-> "null"]

\* C16: every non-null handle returned by bosbase_batch_new,
\* bosbase_collection_subscribe or bosbase_pubsub_subscribe is fully
\* initialized (batch: inner accumulator and owner; subscription: holder with
\* the cancel capability of a completed registration), and a constructor
\* that fails returns null and leaves no handle object allocated.
C16_ConstructorsAllOrNothing ==
    /\ \A b \in LiveBatches : batches[b].impl = "set" /\ batches[b].owner # NullHandle
    /\ \A s \in LiveLinks : links[s].holder = "set" /\ links[s].cancel = "set"
    /\ (last.fn \in {"batch_new", "subscribe"} /\ last.ret # "handle")
          => (last.ret = "null" /\ batches = last.pre[2] /\ links = last.pre[3])

\* The operations a remote call carries, as the inner library reads them.
Carried(ops) ==
    [i \in 1..Len(ops) |->
        [method |-> ops[i].method,
         data |-> [j \in 1..Len(ops[i].att) |-> ReadAttachment(ops[i].att[j])]]]

\* The operations the caller appended, in the same form.
Asked(asked) ==
    [i \in 1..Len(asked) |->
        [method |-> IF asked[i].kind = "delete" THEN "remove" ELSE asked[i].kind,
         data |-> asked[i].given]]

\* C12: for any sequence of N successful appends (any mix of create, upsert,
\* update, delete) on one batch handle, none of the appends triggers a remote
\* call, and a following bosbase_batch_send triggers exactly one remote call
\* that carries exactly those N operations in append order.
C12_OneCallInAppendOrder ==
    /\ (bat.state = "live" /\ ~bat.sent) => remote = <<>>
    /\ (done.fn = "batch_send" /\ done.wasSent)
          => /\ Len(remote) = 1
             /\ Len(remote[1].ops) = done.hadOps
             /\ Carried(remote[1].ops) = Asked(bat.asked)

\* A send has carried two different operations.
C12_Witness ==
    /\ done.fn = "batch_send" /\ done.wasSent
    /\ Len(remote) = 1 /\ Len(remote[1].ops) = 2
    /\ remote[1].ops[1].method = "upsert" /\ remote[1].ops[2].method = "remove"

\* C13: appending any number of operations to a batch handle and then
\* calling bosbase_batch_free without bosbase_batch_send triggers zero
\* remote calls and discards all buffered operations.
C13_FreeNeverCommits ==
    (done.fn = "batch_free" /\ ~done.onNull /\ ~done.wasSent)
        => (remote = <<>> /\ bat.ops = <<>> /\ bat.state = "none")

\* A batch holding two operations has been freed unsent.
C13_Witness ==
    /\ done.fn = "batch_free" /\ ~done.onNull /\ ~done.wasSent
    /\ done.hadOps = 2 /\ bat.state = "none"

\* Every attachment the boundary or the inner library holds.
HeldAttachments ==
    {bat.ops[i].att[j] : <<i, j>> \in {p \in (1..Len(bat.ops)) \X (1..1) : p[2] <= Len(bat.ops[p[1]].att)}}
    \cup {remote[k].ops[i].att[j] :
            <<k, i, j>> \in {p \in (1..Len(remote)) \X (1..MaxOps) \X (1..1) :
                               /\ p[2] <= Len(remote[p[1]].ops)
                               /\ p[3] <= Len(remote[p[1]].ops[p[2]].att)}}
    \cup {done.inner[j] : j \in 1..Len(done.inner)}

\* C17: attachment bytes passed to bosbase_send, bosbase_collection_create,
\* bosbase_collection_update, bosbase_backup_upload and the batch create,
\* upsert and update appends are fully copied before the call returns: no
\* state of the boundary, the buffered operations of a batch included,
\* refers to the caller's buffer after return.
C17_AttachmentsCopied ==
    /\ \A att \in HeldAttachments : att.ref = "own"
    /\ \A j \in 1..Len(done.inner) : done.inner[j].data = done.given[j]
    /\ \A i \in 1..Len(bat.ops) :
          \A j \in 1..Len(bat.ops[i].att) :
             ReadAttachment(bat.ops[i].att[j]) = bat.asked[i].given[j]

\* A batch still holds the bytes of an append after the caller has reused
\* its buffer.
C17_Witness ==
    /\ buf = Scribbled
    /\ \E i \in 1..Len(bat.ops) :
          Len(bat.ops[i].att) = 1 /\ bat.ops[i].att[1].data = Bytes

\* C14: for concurrent calls from several threads on one client handle,
\* bosbase_auth_save and bosbase_auth_clear are mutually exclusive with the
\* reads of the auth state (bosbase_auth_token, bosbase_auth_record, any
\* request that reads the token): no read overlaps a write, and no reader
\* observes a token/record pair that was never saved together.
C14_AuthReadsExcludeWrites ==
    /\ ~(thr.rpc = "reading" /\ thr.wpc # "idle")
    /\ seenPair.seen = seenPair.saved

\* C18: for bosbase_cache_set_entry and bosbase_cache_renew_entry, every
\* ttl_seconds below 0 leaves the TTL out of the inner request, and every
\* ttl_seconds of 0 or more is sent as the literal value, 0 included.
C18_TtlConvention ==
    req.fn \in {"cache_set_entry", "cache_renew_entry"}
        => /\ req.ttl_seconds < 0 => ~req.ttl.has
           /\ req.ttl_seconds >= 0 => (req.ttl.has /\ req.ttl.v = req.ttl_seconds)

\* A cache entry has been set with ttl_seconds = 0 and the inner request
\* carries the literal 0.
C18_Witness ==
    req.fn = "cache_set_entry" /\ req.ttl_seconds = 0 /\ req.ttl = SomeInt(0)

C20_NullAndEmptyAlike ==
    (req.sp # NoParam /\ req.text \in {Null, ""})
        => req.arg = ComposeString(req.sp, IF req.text = Null THEN "" ELSE Null)

\* C21: a null or empty text parameter never fails marshaling: a document
\* argument marshals to the empty document and a query or header bag to the
\* empty mapping, in every entry point.
C21_AbsentTextMarshalsEmpty ==
    call.made
        => /\ IsAbsent(call.in.doc) => parse_json_or(call.in.doc) = Returned(EmptyObject)
           /\ IsAbsent(call.in.query) => parse_query(call.in.query) = Returned(EmptyObject)
           /\ IsAbsent(call.in.hdr) => parse_headers(call.in.hdr) = Returned(EmptyObject)
           /\ (/\ IsAbsent(call.in.doc) /\ IsAbsent(call.in.query) /\ IsAbsent(call.in.hdr)
               /\ call.in.failAt = "none"
               /\ (Accepts(call.ep, "requireFile") => call.in.file)
               /\ ~HandleRejected(call.ep, call.in))
                 => (call.raised = NoSignal /\ ~Failed(call.res))

\* An entry point taking a document, a query and headers has been called
\* with an empty document, an empty query and null headers, and succeeded.
C21_Witness ==
    /\ call.made
    /\ Accepts(call.ep, "doc") /\ Accepts(call.ep, "query") /\ Accepts(call.ep, "headers")
    /\ call.in.doc = "" /\ call.in.query = "" /\ call.in.hdr = Null
    /\ call.res.ret = "0"

\* C22: header marshaling never rejects a value for its type: for every key
\* of a headers_json object, a string value is passed through unchanged and
\* any other value (number, boolean, null, array, object) is replaced by its
\* serialized text; the resulting key set equals the input key set.
C22_HeaderValuesSerialized ==
    (req.fn = "headers" /\ json_parse(req.text).t = "object")
        => LET given == json_parse(req.text).v
               got == req.headers
           IN  /\ got.raised = NoSignal
               /\ got.val.t = "object"
               /\ DOMAIN got.val.v = DOMAIN given
               /\ \A k \in DOMAIN given :
                     got.val.v[k] = IF given[k].t = "string" THEN given[k]
                                    ELSE JStr(dump(given[k]))

\* Headers with an array and an object value have been marshaled to the
\* texts [1] and {"a":1}.
C22_Witness ==
    /\ req.fn = "headers" /\ req.text = TextNested
    /\ req.headers.val.v["code"] = JStr("[1]")
    /\ req.headers.val.v["message"] = JStr("{\"a\":1}")

\* C23: bosbase_backup_upload called with a valid client and no attachment
\* fails with a Local Parameter Error and invokes no remote upload; it never
\* sends an empty request.
C23_UploadNeedsFile ==
    (/\ call.made
     /\ Accepts(call.ep, "requireFile")
     /\ call.in.handle = "valid"
     /\ ~call.in.file)
        => /\ call.res.ret = "-1"
           /\ call.res.inner = 0
           /\ ~call.res.escaped
           /\ call.in.outErr
                 => /\ call.res.err.written
                    /\ call.res.err.v = make_error("file is required for backup upload")

\* bosbase_backup_upload has been called without a file and with an error
\* out-parameter.
C23_Witness ==
    /\ call.made /\ Accepts(call.ep, "requireFile")
    /\ call.in.handle = "valid" /\ ~call.in.file /\ call.in.outErr
    /\ call.res.ret = "-1" /\ call.res.err.written

\* C24: bosbase_pubsub_disconnect tears down the whole publish/subscribe
\* channel of a client: after it returns, no callback of any pubsub
\* subscription created on that client is invoked again, whichever of them
\* had or had not been cancelled.
C24_NoCallbackAfterDisconnect ==
    \A id \in SubIds : ~subs[id].lateDisc

\* C25: for every entry point that accepts a document parameter, a
\* non-empty text that fails structural parsing, or whose top-level value is
\* not an object where an object is required, fails with a Local Parameter
\* Error before any remote operation is attempted and is never forwarded to
\* the inner operation.
C25_BadDocumentRejected ==
    (/\ call.made
     /\ Accepts(call.ep, "doc")
     /\ ~HandleRejected(call.ep, call.in)
     /\ call.in.doc \in Malformed)
        => /\ Failed(call.res)
           /\ call.res.inner = 0
           /\ call.raised.kind = "generic"

\* C26: for each inbound event on a live subscription the bridge allocates
\* one transient buffer, invokes the callback exactly once with it, and
\* releases the buffer exactly once, strictly after the callback has
\* returned: never before or during the callback.
C26_BufferOutlivesCallback ==
    /\ deliv.pc \in {"dup", "callback", "free"} => deliv.buffer = "live"
    /\ deliv.pc = "dup" => deliv.calls = 0
    /\ deliv.pc \in {"callback", "free"} => deliv.calls = 1
    /\ (deliv.pc = "idle" /\ deliv.buffer # "none")
          => (deliv.buffer = "freed" /\ deliv.calls = 1)

\* A delivery has run to its end: one callback invocation, buffer released.
C26_Witness ==
    deliv.pc = "idle" /\ deliv.buffer = "freed" /\ deliv.calls = 1

MarshalSteps == {"doc", "query", "headers", "files", "requireFile"}

\* A marshaling step of the call raised.
MarshalFails(ep, in) ==
    \E kind \in MarshalSteps : Accepts(ep, kind) /\ Step(kind, in).kind # "none"

\* C27: each dispatcher call invokes at most one inner request operation:
\* exactly one when handle validation and parameter marshaling both succeed,
\* and zero when either fails; no entry point retries or issues a second
\* inner operation after a failure.
C27_OneInnerOperation ==
    (call.made /\ Calls(call.ep, RequestSteps))
        => /\ call.res.inner <= 1
           /\ (HandleRejected(call.ep, call.in) \/ MarshalFails(call.ep, call.in))
                 => call.res.inner = 0
           /\ (/\ ~HandleRejected(call.ep, call.in)
               /\ ~MarshalFails(call.ep, call.in)
               /\ call.in.failAt # "accessor")
                 => call.res.inner = 1

\* A call whose inner operation raised a transport failure has invoked it
\* once.
C27_Witness ==
    /\ call.made /\ call.in.failAt = "op" /\ call.in.sig.kind = "transport"
    /\ call.res.inner = 1 /\ call.res.ret = "-1"

\* C28: a call allocates at most one Error Value: when the inner operation
\* raises inside the wrapper, the wrapper's handler is the only one that
\* runs, and the entry point's own catch clauses add nothing to it.
C28_OneErrorValue ==
    call.made
        => /\ call.res.allocs <= 1
           /\ call.res.allocs = (IF call.res.err.written THEN 1 ELSE 0)
           /\ (call.in.failAt = "op" /\ call.ep.wrap # "none"
                 /\ ~HandleRejected(call.ep, call.in)
                 /\ ~MarshalFails(call.ep, call.in))
                 => /\ ~call.res.escaped /\ call.res.ret = "-1"
                    /\ call.res.allocs = (IF call.in.outErr THEN 1 ELSE 0)

\* The inner operation raised a transport failure inside the wrapper of an
\* entry point that has its own catch clauses, and one Error Value came back.
C28_Witness ==
    /\ call.made /\ call.ep.wrap = "json" /\ call.ep.catches # {}
    /\ call.in.failAt = "op" /\ call.in.sig.kind = "transport"
    /\ call.in.outErr /\ call.res.allocs = 1 /\ call.res.err.written

\* C29: bosbase_subscription_cancel on a live subscription, called from a
\* thread other than the delivery thread, eventually returns with the inner
\* cancellation capability invoked exactly once and the handle freed, in
\* every interleaving with deliveries and also when no event was delivered.
C29_CancelReturns ==
    /\ [](\A id \in SubIds : subs[id].cancels <= 1)
    /\ \A id \in SubIds :
          (canc.pc = "inner" /\ canc.sub = id)
             ~> (/\ canc.pc = "idle"
                 /\ subs[id].state = "freed"
                 /\ subs[id].cancels = 1)

\* A cancel has returned before any event was delivered.
C29_Witness ==
    /\ canc.pc = "idle" /\ events = 0
    /\ \E id \in SubIds : subs[id].state = "freed" /\ subs[id].cancels = 1

\* C30: a call that fails at parameter marshaling leaves the handle's state
\* as it was: a batch append given a malformed body or query returns non-zero
\* and the buffered operations are exactly those before the call, so that a
\* send carries only the operations appended successfully; bosbase_auth_save
\* given a malformed record returns non-zero and the stored token and record
\* are unchanged.
C30_FailedMarshalingKeepsState ==
    /\ [][ /\ \A kind \in AppendKinds, in \in MalformedInputs :
                BatchAppend(FALSE, kind, in[1], in[2], NoFiles, "ok")
                   => (bat' = bat /\ remote' = remote /\ done'.ret = "-1")
           /\ BatchSend(FALSE, Null, Null, "ok")
                   => (/\ remote' = InnerSend(bat.ops)
                       /\ Len(remote'[1].ops) = Len(bat.asked)
                       /\ \A i \in 1..Len(bat.asked) :
                             remote'[1].ops[i].method = InnerMethod(bat.asked[i].kind))
           /\ \A token \in Tokens \cup {Null} :
                AuthSaveCall(token, TextBad)
                   => (store' = store /\ done'.ret = "-1") ]_vars

\* A malformed append came back with -1 on a batch holding one operation,
\* and the client's store holds a saved token.
C30_Witness ==
    /\ done.fn = "append" /\ done.ret = "-1" /\ ~done.onNull
    /\ done.hadOps = 1 /\ Len(bat.ops) = 1
    /\ store.token = "tok1"

====
